---------------------------- MODULE Spec2Model ----------------------------
(***************************************************************************)
(* Model of the benchmark-log reconciler (scripts/generate_report_from_log, *)
(* scripts/fix_log), of the batch drivers that append to that log           *)
(* (llm/run_classification_batch, llm/run_combined_benchmark,               *)
(* llm/benchmark_runner) and of the extraction entry points of the          *)
(* recognizer wrappers (paddleocr, easyocr, trocr, got-ocr pod_ocr).        *)
(*                                                                         *)
(* Text is modelled at token granularity.  A line of the log is a sequence  *)
(* of tokens plus a flag telling whether it ends in a newline.  A token is  *)
(* a record [t, a]: t is its kind and a the sequence of characters it       *)
(* carries.  Characters are atoms; the atoms "{" and "}" are the two brace  *)
(* characters str.count() looks for, every other atom is an ordinary        *)
(* character (or a run of them).                                            *)
(*                                                                         *)
(* The texts the recognizers return (the field parsers, normalization and   *)
(* classification) are modelled character by character: a text is a         *)
(* sequence of one-character strings.                                       *)
(*                                                                         *)
(* Specifications: Spec (scanner, aggregate, resume index), SpecBatch (the  *)
(* batch drivers), SpecExtract (the extraction entry points), SpecParse     *)
(* (the field parsers), SpecClassify (normalization and classification in   *)
(* the four wrappers), SpecNumbers (which token gives the street number),  *)
(* SpecTimeout (got-ocr's timeout thread), SpecLazy (got-ocr's lazily made  *)
(* model), SpecAppend (batch runs appending to one log at the same time).   *)
(***************************************************************************)
EXTENDS Integers, Sequences, FiniteSets, TLC

VARIABLES
    log,             \* the log file: a sequence of lines
    pos,             \* index of the next line the scanner reads
    current_block,   \* scanner: buffered text (tokens) of the block being captured
    brace_count,     \* scanner: running count of "{" minus "}"
    in_block,        \* scanner: capturing (TRUE) or idle (FALSE)
    results,         \* scanner: payloads parsed so far, in file order
    raised,          \* an exception has escaped the code being run
    phase,           \* position of the report generator / of the driver
    unique_results,  \* aggregate: insertion-ordered (key, payload) pairs
    passes,          \* how many times the entries were fed to the aggregate
    agg1,            \* history: the aggregate after the first feed
    origin,          \* history: for each entry of results, the line its block's tag is on
    block_start,     \* history: the line the current block's tag is on
    attempts,        \* history: the calls of try_parse, each with its block's tag line
    processed_keys,  \* resume index: the (model, filename) pairs found in the log
    idx_passes,      \* how many times the log was fed to the resume index
    keys1,           \* history: the resume index after the first feed
    driver,          \* batch: which driver runs (classification, combined, runner)
    idx,             \* batch: position of the loops in the (model, image) pairs
    run_no,          \* batch: 1 for the first run, +1 for every resumed run
    pending,         \* batch: entries written to the file object but not flushed
    attempted,       \* history: pairs whose extraction this run has invoked
    appended,        \* history: pairs this run has written an entry for
    failed,          \* history: pairs whose extraction failed in this run
    written,         \* history: payloads of the blocks that reached the file whole
    ecall,           \* extraction: the last call of an entry point and what it gave
    threads,         \* got-ocr: the worker threads started by extract_numbers
    returns,         \* got-ocr: what the calls of extract_numbers returned, in order
    output,          \* got-ocr: the results process_batch has collected for its file
    writers,         \* concurrent batch runs: what each has still to write to the log
    read_error,      \* batch: the prior log could not be read when the index was built
    _model,          \* got-ocr: the module's _model, <<>> for None, <<n>> for the n-th model made
    loads            \* got-ocr: how many times the model has been made in this process

scanVars == <<log, pos, current_block, brace_count, in_block, results, raised,
              phase, unique_results, passes, agg1, origin, block_start, attempts,
              processed_keys, idx_passes, keys1>>

batchVars == <<log, results, raised, phase, processed_keys, driver, idx, run_no,
               pending, attempted, appended, failed, written>>

scanOnly == <<pos, current_block, brace_count, in_block, unique_results, passes,
              agg1, origin, block_start, attempts, idx_passes, keys1>>

batchOnly == <<driver, idx, run_no, pending, attempted, appended, failed, written>>

concVars == <<threads, returns, output, writers>>

lazyVars == <<_model, loads>>

extraVars == <<concVars, read_error, lazyVars>>

vars == <<scanVars, batchOnly, ecall, extraVars>>

-----------------------------------------------------------------------------
(* Bounds of the model.                                                    *)

MaxChunks == 3

MaxReplay == 2

MaxRuns == 2

MaxNumberText == 6

MaxUnitPieces == 4

MaxTokens == 4

MaxCalls == 3

MaxProducers == 2

-----------------------------------------------------------------------------
(* Text: tokens, lines, brace counting.                                    *)

Tok(t, a) == [t |-> t, a |-> a]

LB == Tok("lb", <<>>)              \* {
RB == Tok("rb", <<>>)              \* }
Comma == Tok("comma", <<>>)        \* ,
Key(k) == Tok("key", <<k>>)        \* "k":
Str(chars) == Tok("str", chars)    \* a JSON string literal, escaped by json.dumps
NullTok == Tok("null", <<>>)       \* null
Num(n) == Tok("num", <<n>>)        \* a number literal
Junk == Tok("junk", <<>>)          \* text that is no JSON token
Tag(p, s) == Tok("tag", <<p, s>>)  \* the text "[p] s: " at the start of an entry

Line(toks, nl) == [toks |-> toks, nl |-> nl]

RECURSIVE CountAtom(_, _)
\* chars.count(c) for the characters a token carries
CountAtom(chars, c) ==
    IF chars = <<>> THEN 0
    ELSE (IF Head(chars) = c THEN 1 ELSE 0) + CountAtom(Tail(chars), c)

RECURSIVE CountOpen(_)
\* text.count('{')
CountOpen(toks) ==
    IF toks = <<>> THEN 0
    ELSE (IF Head(toks).t = "lb" THEN 1 ELSE 0)
         + CountAtom(Head(toks).a, "{") + CountOpen(Tail(toks))

RECURSIVE CountClose(_)
\* text.count('}')
CountClose(toks) ==
    IF toks = <<>> THEN 0
    ELSE (IF Head(toks).t = "rb" THEN 1 ELSE 0)
         + CountAtom(Head(toks).a, "}") + CountClose(Tail(toks))

-----------------------------------------------------------------------------
(* JSON values, json.loads and json.dumps(indent=2).                       *)

\* A Python value: a scalar (t in str, null, num) or a dict (t = obj, o the mapping).
Val(t, a, o) == [t |-> t, a |-> a, o |-> o]
None == Val("null", <<>>, <<>>)
StrV(chars) == Val("str", chars, <<>>)
NumV(n) == Val("num", <<n>>, <<>>)
Dict(o) == Val("obj", <<>>, o)
IsDict(v) == v.t = "obj"

\* dict.get(k): the value, or None when the key is absent
Get(v, k) == IF k \in DOMAIN v.o THEN v.o[k] ELSE None

\* d[k] = x
Put(o, k, x) == [y \in (DOMAIN o) \cup {k} |-> IF y = k THEN x ELSE o[y]]

ParseFail == [ok |-> FALSE, val |-> None, next |-> 0]

RECURSIVE ParseValue(_, _)
RECURSIVE ParseMembers(_, _, _)
\* one JSON value starting at token i
ParseValue(toks, i) ==
    IF i > Len(toks) THEN ParseFail
    ELSE LET tk == toks[i] IN
         IF tk.t \in {"str", "null", "num"}
         THEN [ok |-> TRUE, val |-> Val(tk.t, tk.a, <<>>), next |-> i + 1]
         ELSE IF tk.t = "lb"
         THEN IF i + 1 <= Len(toks) /\ toks[i + 1].t = "rb"
              THEN [ok |-> TRUE, val |-> Dict(<<>>), next |-> i + 2]
              ELSE ParseMembers(toks, i + 1, <<>>)
         ELSE ParseFail

\* the members of an object, the opening brace already read
ParseMembers(toks, i, acc) ==
    IF i + 1 > Len(toks) \/ toks[i].t # "key" THEN ParseFail
    ELSE LET v == ParseValue(toks, i + 1) IN
         IF ~v.ok \/ v.next > Len(toks) THEN ParseFail
         ELSE LET acc2 == Put(acc, toks[i].a[1], v.val) IN
              IF toks[v.next].t = "rb"
              THEN [ok |-> TRUE, val |-> Dict(acc2), next |-> v.next + 1]
              ELSE IF toks[v.next].t = "comma"
              THEN ParseMembers(toks, v.next + 1, acc2)
              ELSE ParseFail

\* json.loads(text): ok is FALSE where json.loads raises JSONDecodeError
json_loads(toks) ==
    LET r == ParseValue(toks, 1) IN
    IF r.ok /\ r.next = Len(toks) + 1 THEN r ELSE ParseFail

\* The order json.dumps writes the keys in (the dicts' insertion order).
KeyOrder == <<"model", "filename", "category", "street_number", "street_name",
              "unit_number", "confidence", "error", "f1", "f2">>

RECURSIVE KeysIn(_, _)
KeysIn(o, ks) ==
    IF ks = <<>> THEN <<>>
    ELSE IF Head(ks) \in DOMAIN o THEN <<Head(ks)>> \o KeysIn(o, Tail(ks))
    ELSE KeysIn(o, Tail(ks))

WithComma(toks, more) == IF more THEN toks \o <<Comma>> ELSE toks

RECURSIVE DumpLines(_, _, _)
RECURSIVE DumpMembers(_, _)
\* json.dumps(v, indent=2) as lines (each a token sequence); `pre` are the tokens
\* before the value on its first line, `more` whether a comma follows it
DumpLines(v, pre, more) ==
    IF ~IsDict(v) THEN <<WithComma(pre \o <<Tok(v.t, v.a)>>, more)>>
    ELSE IF DOMAIN v.o = {} THEN <<WithComma(pre \o <<LB, RB>>, more)>>
    ELSE <<pre \o <<LB>>>> \o DumpMembers(v.o, KeysIn(v.o, KeyOrder))
         \o <<WithComma(<<RB>>, more)>>

DumpMembers(o, ks) ==
    IF ks = <<>> THEN <<>>
    ELSE DumpLines(o[Head(ks)], <<Key(Head(ks))>>, Tail(ks) # <<>>)
         \o DumpMembers(o, Tail(ks))

\* f"[{model}] {filename}: {json.dumps(data, indent=2)}\n" as lines of text
LogEntry(model, filename, data) ==
    LET ls == DumpLines(data, <<Tag(model, filename)>>, FALSE) IN
    [i \in 1..Len(ls) |-> Line(ls[i], TRUE)]

\* an entry cut short: k whole lines and the first n tokens of the next one
Truncated(e, k, n) ==
    SubSeq(e, 1, k)
    \o (IF n = 0 THEN <<>> ELSE <<Line(SubSeq(e[k + 1].toks, 1, n), FALSE)>>)

\* file.write(text) in append mode: a last line without newline is continued
AppendText(file, lines) ==
    IF lines = <<>> THEN file
    ELSE IF file # <<>> /\ ~file[Len(file)].nl
    THEN SubSeq(file, 1, Len(file) - 1)
         \o <<Line(file[Len(file)].toks \o lines[1].toks, lines[1].nl)>>
         \o Tail(lines)
    ELSE file \o lines

-----------------------------------------------------------------------------
(* The log scanner: generate_markdown_report's loop, fix_log.parse_log.    *)

\* prefix_pattern.match(line): the line starts with "[producer] subject: "
prefix_match(line) == line.toks # <<>> /\ line.toks[1].t = "tag"

\* try_parse without its except clause: the JSONDecodeError escapes (a faulty variant)
try_parse_uncaught(json_str, res) ==
    LET r == json_loads(json_str) IN
    [results |-> IF r.ok THEN Append(res, r.val) ELSE res, raised |-> ~r.ok]

\* try_parse putting the payload in front of the list (a faulty variant)
try_parse_prepend(json_str, res) ==
    LET r == json_loads(json_str) IN
    [results |-> IF r.ok THEN <<r.val>> \o res ELSE res, raised |-> FALSE]

\* try_parse(json_str, results): append the parsed payload; a block that does not
\* parse is reported and skipped
try_parse(json_str, res) ==
    LET r == json_loads(json_str) IN
    [results |-> IF r.ok THEN Append(res, r.val) ELSE res, raised |-> FALSE]

\* The scanner's local state as one record.
ScanState(cb, bc, ib, res, rz, org, bs, att) ==
    [current_block |-> cb, brace_count |-> bc, in_block |-> ib, results |-> res,
     raised |-> rz, origin |-> org, block_start |-> bs, attempts |-> att]

ScanInit == ScanState(<<>>, 0, FALSE, <<>>, FALSE, <<>>, 0, <<>>)

\* a call of try_parse on the buffer, with the history of where the entry came from
Attempt(st, buf) ==
    LET r == try_parse(buf, st.results) IN
    [st EXCEPT !.results = r.results,
               !.raised = r.raised,
               !.origin = IF Len(r.results) > Len(st.results)
                          THEN Append(st.origin, st.block_start) ELSE st.origin,
               !.attempts = Append(st.attempts, [start |-> st.block_start, text |-> buf])]

\* a new tag line that drops the open block without parsing it (a faulty variant)
ForceFlushDrop(st) ==
    IF st.in_block /\ st.current_block # <<>>
    THEN [st EXCEPT !.current_block = <<>>, !.brace_count = 0]
    ELSE st

\* the force-flush of a block still open when the next tag line arrives
ForceFlush(st) ==
    IF st.in_block /\ st.current_block # <<>>
    THEN [Attempt(st, st.current_block) EXCEPT !.current_block = <<>>, !.brace_count = 0]
    ELSE st

\* the loop body for a line that matches the prefix pattern (n is its line number)
OnTagLine(st, line, n) ==
    LET s1 == ForceFlush(st)
        json_part == Tail(line.toks)
        bc == CountOpen(json_part) - CountClose(json_part)
        s2 == [s1 EXCEPT !.current_block = json_part, !.brace_count = bc,
                         !.block_start = n]
    IN  IF s1.raised THEN s1
        ELSE IF bc = 0 /\ json_part # <<>>
        THEN [Attempt(s2, json_part) EXCEPT !.current_block = <<>>, !.in_block = FALSE]
        ELSE [s2 EXCEPT !.in_block = TRUE]

\* a body line that closes the block and leaves its text in the buffer (a faulty
\* variant: current_block is not reset)
OnBodyLineKeep(st, line) ==
    LET cb == st.current_block \o line.toks
        bc == st.brace_count + CountOpen(line.toks) - CountClose(line.toks)
        s1 == [st EXCEPT !.current_block = cb, !.brace_count = bc]
    IN  IF bc = 0 THEN [Attempt(s1, cb) EXCEPT !.in_block = FALSE] ELSE s1

\* the loop body for a line that does not match, while capturing
OnBodyLine(st, line) ==
    LET cb == st.current_block \o line.toks
        bc == st.brace_count + CountOpen(line.toks) - CountClose(line.toks)
        s1 == [st EXCEPT !.current_block = cb, !.brace_count = bc]
    IN  IF bc = 0
        THEN [Attempt(s1, cb) EXCEPT !.current_block = <<>>, !.in_block = FALSE]
        ELSE s1

\* a loop body that does not look for a tag line while a block is open (a faulty variant)
ScanLineNoResync(st, line, n) ==
    IF st.in_block THEN OnBodyLine(st, line)
    ELSE IF prefix_match(line) THEN OnTagLine(st, line, n)
    ELSE st

\* one iteration of "for line in f"
ScanLine(st, line, n) ==
    IF prefix_match(line) THEN OnTagLine(st, line, n)
    ELSE IF st.in_block THEN OnBodyLine(st, line)
    ELSE st

\* "Check trailing": the parse of a block still open at end of file
ScanTrailing(st) ==
    IF st.in_block /\ st.current_block # <<>> THEN Attempt(st, st.current_block)
    ELSE st

RECURSIVE ScanFrom(_, _, _)
\* the whole loop over a file, from line n on
ScanFrom(st, file, n) ==
    IF st.raised THEN st
    ELSE IF n > Len(file) THEN ScanTrailing(st)
    ELSE ScanFrom(ScanLine(st, file[n], n), file, n + 1)

\* parse_log(file_path)
parse_log(file) == ScanFrom(ScanInit, file, 1)

-----------------------------------------------------------------------------
(* The aggregate: "Filter out duplicates (keep latest)".                   *)

\* key = (r.get('model'), r.get('filename'))
KeyOf(r) == <<Get(r, "model"), Get(r, "filename")>>

IndexOfKey(agg, k) ==
    IF \E i \in 1..Len(agg) : agg[i].key = k
    THEN CHOOSE i \in 1..Len(agg) : agg[i].key = k
    ELSE 0

\* a dict assignment that does not overwrite (a faulty variant: first write wins)
SetItemKeepFirst(agg, k, r) ==
    IF IndexOfKey(agg, k) # 0 THEN agg ELSE Append(agg, [key |-> k, val |-> r])

\* an aggregate that keeps every entry (a faulty variant: a list, not a dict)
SetItemAppend(agg, k, r) == Append(agg, [key |-> k, val |-> r])

\* unique_results[key] = r on an insertion-ordered dict
SetItem(agg, k, r) ==
    LET i == IndexOfKey(agg, k) IN
    IF i # 0 THEN [agg EXCEPT ![i].val = r] ELSE Append(agg, [key |-> k, val |-> r])

RECURSIVE Feed(_, _)
\* for r in results: unique_results[key] = r
Feed(agg, rs) ==
    IF rs = <<>> THEN agg
    ELSE Feed(SetItem(agg, KeyOf(Head(rs)), Head(rs)), Tail(rs))

\* list(unique_results.values())
Values(agg) == [i \in 1..Len(agg) |-> agg[i].val]

\* r.get raises AttributeError on a payload that is no dict
FeedRaises(rs) == \E i \in 1..Len(rs) : ~IsDict(rs[i])

-----------------------------------------------------------------------------
(* The resume index: run_classification_batch's scan of the prior log.     *)

\* log_prefix_pattern.match(line): group(1) and group(2) of "[model] filename:"
IndexKey(line) == <<line.toks[1].a[1], line.toks[1].a[2]>>

\* an index that forgets what it held (a faulty variant: the set is rebuilt, not added to)
IndexAddFresh(keys, file) ==
    IF keys = {} THEN { IndexKey(file[i]) : i \in { j \in 1..Len(file) : prefix_match(file[j]) } }
    ELSE {}

\* for line in f: if match: processed_keys.add((model_name, file_name))
IndexAdd(keys, file) ==
    keys \cup { IndexKey(file[i]) : i \in { j \in 1..Len(file) : prefix_match(file[j]) } }

-----------------------------------------------------------------------------
(* The logs the scanner is run on.                                         *)

\* a classification/combined result as the drivers log it
Payload(m, f, x) ==
    Dict([k \in {"model", "filename", "street_name"} |->
            IF k = "model" THEN StrV(<<m>>)
            ELSE IF k = "filename" THEN StrV(<<f>>) ELSE x])

\* a result record with the three address fields
Record(m, f, num, name, unit) ==
    Dict([k \in {"model", "filename", "street_number", "street_name", "unit_number"} |->
            IF k = "model" THEN StrV(<<m>>)
            ELSE IF k = "filename" THEN StrV(<<f>>)
            ELSE IF k = "street_number" THEN num
            ELSE IF k = "street_name" THEN name ELSE unit])

\* benchmark_runner's record: the result nested under the file name
Nested(f, x) == Dict([k \in {f} |-> Dict([j \in {"street_name"} |-> x])])

\* what an address field may hold: null, or a string, braces included
FieldVals == {None, StrV(<<"a">>), StrV(<<"}">>), StrV(<<"{">>), StrV(<<"{", "}">>)}

\* the pieces a log is made of
Chunks ==
    { LogEntry("m1", "f1", Payload("m1", "f1", StrV(<<"a">>))),
      LogEntry("m1", "f1", Payload("m1", "f1", StrV(<<"b">>))),
      LogEntry("m2", "f1", Payload("m2", "f1", StrV(<<"a">>))),
      \* an entry whose tag names another pair than its payload
      LogEntry("m2", "f2", Payload("m1", "f1", StrV(<<"c">>))),
      \* an entry cut off after a whole line, and one cut off inside a line
      SubSeq(LogEntry("m1", "f2", Payload("m1", "f2", StrV(<<"a">>))), 1, 2),
      <<Line(<<Tag("m1", "f2"), LB>>, TRUE), Line(<<Key("model")>>, FALSE)>>,
      \* entries with a brace inside a string
      LogEntry("m1", "f2", Payload("m1", "f2", StrV(<<"}">>))),
      LogEntry("m1", "f2", Payload("m1", "f2", StrV(<<"{">>))),
      \* run_combined_benchmark's one-line error entry
      <<Line(<<Tag("m2", "f2"), LB, Key("error"), Str(<<"e">>), RB>>, TRUE)>>,
      \* a balanced block that is no JSON, a line that belongs to no block,
      \* a payload that is JSON but no object, a tag line with nothing after it
      <<Line(<<Tag("m2", "f2"), LB>>, TRUE), Line(<<Junk>>, TRUE), Line(<<RB>>, TRUE)>>,
      <<Line(<<Junk>>, TRUE)>>,
      <<Line(<<Tag("m2", "f2"), NullTok>>, TRUE)>>,
      <<Line(<<Tag("m2", "f1")>>, TRUE)>>,
      LogEntry("m1", "f1", Nested("f1", StrV(<<"a">>))) }

RECURSIVE Concat(_, _)
\* the file that results from writing the chunks cs[i..] one after the other
Concat(cs, i) ==
    IF i > Len(cs) THEN <<>>
    ELSE LET rest == Concat(cs, i + 1) IN
         IF rest = <<>> THEN cs[i]
         ELSE IF ~cs[i][Len(cs[i])].nl
         THEN AppendText(cs[i], rest)
         ELSE cs[i] \o rest

ChunkLogs == { Concat(cs, 1) : cs \in UNION { [1..n -> Chunks] : n \in 0..MaxChunks } }

RoundTripLogs ==
    { LogEntry("m1", "f1", Record("m1", "f1", a, b, c)) : a, b, c \in FieldVals }

Logs == ChunkLogs \cup RoundTripLogs

-----------------------------------------------------------------------------
(* Specification Spec: generate_markdown_report run on a log.              *)

\* no driver is running
\* no worker thread, no call, no concurrent writer
ExtraIdle ==
    /\ threads = <<>>
    /\ returns = <<>>
    /\ output = <<>>
    /\ writers = <<>>
    /\ read_error = FALSE
    /\ _model = <<>>
    /\ loads = 0

BatchIdle ==
    /\ driver = "none"
    /\ idx = 0
    /\ run_no = 0
    /\ pending = <<>>
    /\ attempted = {}
    /\ appended = {}
    /\ failed = {}
    /\ written = {}

\* no entry point has been called
NoCall ==
    [entry |-> "none", wrapper |-> "none", arg |-> <<>>, raised |-> FALSE, ret |-> None]

Init ==
    /\ log \in Logs
    /\ pos = 1
    /\ current_block = <<>>
    /\ brace_count = 0
    /\ in_block = FALSE
    /\ results = <<>>
    /\ raised = FALSE
    /\ phase = "scan"
    /\ unique_results = <<>>
    /\ passes = 0
    /\ agg1 = <<>>
    /\ origin = <<>>
    /\ block_start = 0
    /\ attempts = <<>>
    /\ processed_keys = {}
    /\ idx_passes = 0
    /\ keys1 = {}
    /\ BatchIdle
    /\ ecall = NoCall
    /\ ExtraIdle

Scanner ==
    ScanState(current_block, brace_count, in_block, results, raised, origin, block_start,
              attempts)

SetScanner(st) ==
    /\ current_block' = st.current_block
    /\ brace_count' = st.brace_count
    /\ in_block' = st.in_block
    /\ results' = st.results
    /\ raised' = st.raised
    /\ origin' = st.origin
    /\ block_start' = st.block_start
    /\ attempts' = st.attempts

\* an action of the scan loop on the line at pos
Step(guard) ==
    /\ phase = "scan"
    /\ pos <= Len(log)
    /\ guard
    /\ LET st == ScanLine(Scanner, log[pos], pos) IN
       /\ SetScanner(st)
       /\ phase' = IF st.raised THEN "failed" ELSE "scan"
    /\ pos' = pos + 1
    /\ UNCHANGED <<log, unique_results, passes, agg1, processed_keys, idx_passes, keys1>>
    /\ UNCHANGED <<batchOnly, ecall, extraVars>>

\* the line read starts an entry
ScanTagLine == Step(prefix_match(log[pos]))

\* the line read continues the block being captured
ScanBodyLine == Step(~prefix_match(log[pos]) /\ in_block)

\* the line read belongs to no block
ScanSkipLine == Step(~prefix_match(log[pos]) /\ ~in_block)

\* the end of the file: the trailing block is parsed
ScanEOF ==
    /\ phase = "scan"
    /\ pos > Len(log)
    /\ LET st == ScanTrailing(Scanner) IN
       /\ SetScanner(st)
       /\ phase' = IF st.raised THEN "failed" ELSE "dedup"
    /\ UNCHANGED <<log, pos, unique_results, passes, agg1, processed_keys, idx_passes,
                   keys1>>
    /\ UNCHANGED <<batchOnly, ecall, extraVars>>

\* "Filter out duplicates (keep latest)"
Dedup ==
    /\ phase = "dedup"
    /\ IF FeedRaises(results)
       THEN /\ raised' = TRUE
            /\ phase' = "failed"
            /\ UNCHANGED <<unique_results, passes, agg1>>
       ELSE /\ unique_results' = Feed(unique_results, results)
            /\ agg1' = unique_results'
            /\ passes' = 1
            /\ phase' = "done"
            /\ UNCHANGED raised
    /\ UNCHANGED <<log, pos, current_block, brace_count, in_block, results, origin,
                   block_start, attempts, processed_keys, idx_passes, keys1>>
    /\ UNCHANGED <<batchOnly, ecall, extraVars>>

\* the same log replayed: its entries are fed to the aggregate once more
Replay ==
    /\ phase = "done"
    /\ passes < MaxReplay
    /\ unique_results' = Feed(unique_results, results)
    /\ passes' = passes + 1
    /\ UNCHANGED <<log, pos, current_block, brace_count, in_block, results, raised,
                   phase, agg1, origin, block_start, attempts, processed_keys,
                   idx_passes, keys1>>
    /\ UNCHANGED <<batchOnly, ecall, extraVars>>

\* the resume index is built from the log (and built again from the same log)
BuildIndex ==
    /\ phase = "done"
    /\ idx_passes < MaxReplay
    /\ processed_keys' = IndexAdd(processed_keys, log)
    /\ idx_passes' = idx_passes + 1
    /\ keys1' = IF idx_passes = 0 THEN processed_keys' ELSE keys1
    /\ UNCHANGED <<log, pos, current_block, brace_count, in_block, results, raised,
                   phase, unique_results, passes, agg1, origin, block_start,
                   attempts>>
    /\ UNCHANGED <<batchOnly, ecall, extraVars>>

Next ==
    \/ ScanTagLine
    \/ ScanBodyLine
    \/ ScanSkipLine
    \/ ScanEOF
    \/ Dedup
    \/ Replay
    \/ BuildIndex

Spec == Init /\ [][Next]_vars

-----------------------------------------------------------------------------
(* The batch drivers: run_classification_batch.main,                       *)
(* run_combined_benchmark.run_benchmark, benchmark_runner.run_benchmark.   *)

Drivers == {"classification", "combined", "runner"}

\* "for model in models: for img_path in images", as the pairs in loop order;
\* benchmark_runner runs one model
Pairs(d) ==
    IF d = "runner" THEN << <<"m1", "f1">>, <<"m1", "f2">> >>
    ELSE << <<"m1", "f1">>, <<"m1", "f2">>, <<"m2", "f1">>, <<"m2", "f2">> >>

\* what the extraction of a pair can raise in each driver: the subprocess call and
\* the parse of its output; process_image / extract_address (an Exception, or the
\* SystemExit of encode_image when the image is not there)
FailureKinds(d) ==
    IF d = "classification" THEN {"CalledProcessError", "JSONDecodeError"}
    ELSE {"Exception", "SystemExit"}

\* the except clauses around the extraction of a pair
Catches(d, kind) ==
    IF d = "classification" THEN kind \in {"CalledProcessError", "JSONDecodeError"}
    ELSE IF d = "combined" THEN kind = "Exception"
    ELSE TRUE

\* the record of a successful attempt
OkData(d, m, f) ==
    IF d = "runner" THEN Nested(f, StrV(<<"a">>))
    ELSE Dict([k \in {"model", "filename", "category"} |->
                 IF k = "model" THEN StrV(<<m>>)
                 ELSE IF k = "filename" THEN StrV(<<f>>) ELSE StrV(<<"a">>)])

\* run_classification_batch's error_data
ErrorData(m, f, kind) ==
    Dict([k \in {"model", "filename", "category", "confidence"} |->
            IF k = "model" THEN StrV(<<m>>)
            ELSE IF k = "filename" THEN StrV(<<f>>)
            ELSE IF k = "category"
            THEN StrV(<<IF kind = "JSONDecodeError" THEN "JSON_ERROR" ELSE "ERROR">>)
            ELSE NumV("0.0")])

\* str(e) put between quotes by an f-string: a quote in it ends the literal
RawString(msg) == IF CountAtom(msg, "\"") > 0 THEN <<Junk>> ELSE <<Str(msg)>>

\* f"[{model}] {filename}: {{ \"error\": \"{str(e)}\" }}\n"
CombinedErrorLine(m, f, msg) ==
    <<Line(<<Tag(m, f), LB, Key("error")>> \o RawString(msg) \o <<RB>>, TRUE)>>

\* what a driver writes for a pair: the text, whether flush() follows the write, and
\* the payload of the block (None when the text is no tagged block)
Written(lines, flush, payload) == [lines |-> lines, flush |-> flush, payload |-> payload]

OkWrite(d, m, f) == Written(LogEntry(m, f, OkData(d, m, f)), TRUE, OkData(d, m, f))

ErrorWrite(d, m, f, kind) ==
    IF d = "classification"
    THEN Written(LogEntry(m, f, ErrorData(m, f, kind)), TRUE, ErrorData(m, f, kind))
    ELSE IF d = "combined"
    THEN Written(CombinedErrorLine(m, f, <<"e">>), FALSE,
                 Dict([k \in {"error"} |-> StrV(<<"e">>)]))
    ELSE Written(<<Line(<<Junk>>, TRUE)>>, FALSE, None)

RECURSIVE PendingLines(_)
\* the text held by the file object's buffer
PendingLines(ps) ==
    IF ps = <<>> THEN <<>> ELSE AppendText(ps[1].lines, PendingLines(Tail(ps)))

PendingPayloads(ps) == { ps[i].payload : i \in 1..Len(ps) } \ {None}

\* a skip check with the pair the wrong way round (a faulty variant)
AlreadyDoneSwapped(keys, m, f) == <<f, m>> \in keys

\* "if (model, filename) in processed_keys: continue"
AlreadyDone(keys, m, f) == <<m, f>> \in keys

\* run_combined_benchmark's resume scan: the text between "[" and "] ", and the
\* text up to the first ":" after it
IndexAddSplit(keys, file) ==
    keys \cup { <<file[i].toks[1].a[1], file[i].toks[1].a[2]>> :
                  i \in { j \in 1..Len(file) : prefix_match(file[j]) } }

\* the resume index a driver builds from the log it is started on
BuildResumeIndex(d, file) ==
    IF d = "classification" THEN IndexAdd({}, file)
    ELSE IF d = "combined" THEN IndexAddSplit({}, file)
    ELSE {}

\* where a kill may cut the entry being written: after its first line, after the
\* first token of its first or second line
KillCuts(e) ==
    { Truncated(e, 1, 0) } \cup { Truncated(e, 1, 1) : x \in { y \in {1} : Len(e) > 1 } }
    \cup { <<Line(SubSeq(e[1].toks, 1, 1), FALSE)>> }

BatchInit ==
    /\ driver \in Drivers
    /\ log = <<>>
    /\ processed_keys = {}
    /\ idx = 1
    /\ run_no = 1
    /\ pending = <<>>
    /\ attempted = {}
    /\ appended = {}
    /\ failed = {}
    /\ written = {}
    /\ results = <<>>
    /\ raised = FALSE
    /\ phase = "run"
    /\ pos = 1
    /\ current_block = <<>>
    /\ brace_count = 0
    /\ in_block = FALSE
    /\ unique_results = <<>>
    /\ passes = 0
    /\ agg1 = <<>>
    /\ origin = <<>>
    /\ block_start = 0
    /\ attempts = <<>>
    /\ idx_passes = 0
    /\ keys1 = {}
    /\ ecall = NoCall
    /\ ExtraIdle

Running == phase = "run" /\ idx <= Len(Pairs(driver))

CurModel == Pairs(driver)[idx][1]

CurFile == Pairs(driver)[idx][2]

\* file.write(w.lines), with flush() after it where the code calls it
DoWrite(w) ==
    IF w.flush
    THEN /\ log' = AppendText(log, PendingLines(Append(pending, w)))
         /\ pending' = <<>>
         /\ written' = written \cup PendingPayloads(Append(pending, w))
    ELSE /\ pending' = Append(pending, w)
         /\ UNCHANGED <<log, written>>

\* the pair is in the resume index: nothing is done for it
SkipPair ==
    /\ Running
    /\ AlreadyDone(processed_keys, CurModel, CurFile)
    /\ idx' = idx + 1
    /\ UNCHANGED <<log, results, raised, phase, processed_keys, driver, run_no,
                   pending, attempted, appended, failed, written>>
    /\ UNCHANGED <<scanOnly, ecall, extraVars>>

\* the extraction of the pair succeeds and its entry is written
ProcessOk ==
    /\ Running
    /\ ~AlreadyDone(processed_keys, CurModel, CurFile)
    /\ attempted' = attempted \cup {<<CurModel, CurFile>>}
    /\ appended' = appended \cup {<<CurModel, CurFile>>}
    /\ DoWrite(OkWrite(driver, CurModel, CurFile))
    /\ idx' = idx + 1
    /\ UNCHANGED <<results, raised, phase, processed_keys, driver, run_no, failed>>
    /\ UNCHANGED <<scanOnly, ecall, extraVars>>

\* the extraction of the pair fails with an exception the driver catches
ProcessFailed ==
    /\ Running
    /\ ~AlreadyDone(processed_keys, CurModel, CurFile)
    /\ \E kind \in FailureKinds(driver) :
          /\ Catches(driver, kind)
          /\ DoWrite(ErrorWrite(driver, CurModel, CurFile, kind))
    /\ attempted' = attempted \cup {<<CurModel, CurFile>>}
    /\ appended' = appended \cup (IF driver = "runner" THEN {} ELSE {<<CurModel, CurFile>>})
    /\ failed' = failed \cup {<<CurModel, CurFile>>}
    /\ idx' = idx + 1
    /\ UNCHANGED <<results, raised, phase, processed_keys, driver, run_no>>
    /\ UNCHANGED <<scanOnly, ecall, extraVars>>

\* the extraction of the pair fails with an exception no except clause catches:
\* it leaves the driver, the interpreter flushes the file on its way out
ProcessEscapes ==
    /\ Running
    /\ ~AlreadyDone(processed_keys, CurModel, CurFile)
    /\ \E kind \in FailureKinds(driver) : ~Catches(driver, kind)
    /\ attempted' = attempted \cup {<<CurModel, CurFile>>}
    /\ failed' = failed \cup {<<CurModel, CurFile>>}
    /\ log' = AppendText(log, PendingLines(pending))
    /\ written' = written \cup PendingPayloads(pending)
    /\ pending' = <<>>
    /\ raised' = TRUE
    /\ phase' = "aborted"
    /\ UNCHANGED <<results, processed_keys, driver, idx, run_no, appended>>
    /\ UNCHANGED <<scanOnly, ecall, extraVars>>

\* the user interrupts the run (KeyboardInterrupt): run_combined_benchmark closes the
\* file and returns, run_classification_batch is left through its with block;
\* benchmark_runner catches it like any failure and goes on
Interrupt ==
    /\ Running
    /\ driver # "runner"
    /\ log' = AppendText(log, PendingLines(pending))
    /\ written' = written \cup PendingPayloads(pending)
    /\ pending' = <<>>
    /\ phase' = "interrupted"
    /\ UNCHANGED <<results, raised, processed_keys, driver, idx, run_no, attempted,
                   appended, failed>>
    /\ UNCHANGED <<scanOnly, ecall, extraVars>>

\* the process is killed between two pairs: what was not flushed is lost
KillBetween ==
    /\ phase = "run"
    /\ pending' = <<>>
    /\ phase' = "crashed"
    /\ UNCHANGED <<log, results, raised, processed_keys, driver, idx, run_no, attempted,
                   appended, failed, written>>
    /\ UNCHANGED <<scanOnly, ecall, extraVars>>

\* the process is killed while the entry of the pair is being written to the file:
\* the buffer's earlier text is in the file, the entry is cut
KillDuringWrite ==
    /\ Running
    /\ ~AlreadyDone(processed_keys, CurModel, CurFile)
    /\ \E t \in KillCuts(OkWrite(driver, CurModel, CurFile).lines) :
          log' = AppendText(AppendText(log, PendingLines(pending)), t)
    /\ written' = written \cup PendingPayloads(pending)
    /\ pending' = <<>>
    /\ attempted' = attempted \cup {<<CurModel, CurFile>>}
    /\ phase' = "crashed"
    /\ UNCHANGED <<results, raised, processed_keys, driver, idx, run_no, appended,
                   failed>>
    /\ UNCHANGED <<scanOnly, ecall, extraVars>>

\* the loops are over: the file is closed
FinishRun ==
    /\ phase = "run"
    /\ idx > Len(Pairs(driver))
    /\ log' = AppendText(log, PendingLines(pending))
    /\ written' = written \cup PendingPayloads(pending)
    /\ pending' = <<>>
    /\ phase' = "finished"
    /\ UNCHANGED <<results, raised, processed_keys, driver, idx, run_no, attempted,
                   appended, failed>>
    /\ UNCHANGED <<scanOnly, ecall, extraVars>>

\* the driver is started again on the same log
Resume ==
    /\ phase \in {"crashed", "interrupted", "aborted"}
    /\ run_no < MaxRuns
    /\ processed_keys' = BuildResumeIndex(driver, log)
    /\ idx' = 1
    /\ run_no' = run_no + 1
    /\ attempted' = {}
    /\ appended' = {}
    /\ failed' = {}
    /\ raised' = FALSE
    /\ phase' = "run"
    /\ read_error' = FALSE
    /\ UNCHANGED <<log, results, driver, pending, written>>
    /\ UNCHANGED <<scanOnly, ecall, concVars, lazyVars>>

\* the driver is started again on a log that cannot be read to its end (the open
\* fails, or a read of the file raises after n lines).  run_classification_batch
\* reads the log outside any try: the error leaves main.  run_combined_benchmark
\* reads it inside "try: ... except Exception", prints a warning and goes on with
\* the keys it had added before the error.
ResumeReadError ==
    /\ phase \in {"crashed", "interrupted", "aborted"}
    /\ run_no < MaxRuns
    /\ driver \in {"classification", "combined"}
    /\ run_no' = run_no + 1
    /\ attempted' = {}
    /\ appended' = {}
    /\ failed' = {}
    /\ read_error' = TRUE
    /\ IF driver = "classification"
       THEN /\ processed_keys' = {}
            /\ raised' = TRUE
            /\ phase' = "unreadable"
            /\ UNCHANGED idx
       ELSE /\ \E n \in 0..(Len(log) - 1) :
                  processed_keys' = BuildResumeIndex(driver, SubSeq(log, 1, n))
            /\ raised' = FALSE
            /\ phase' = "run"
            /\ idx' = 1
    /\ UNCHANGED <<log, results, driver, pending, written>>
    /\ UNCHANGED <<scanOnly, ecall, concVars, lazyVars>>

\* the report generator scans the log of the finished run
Report ==
    /\ phase = "finished"
    /\ results' = parse_log(log).results
    /\ phase' = "scanned"
    /\ UNCHANGED <<log, raised, processed_keys, driver, idx, run_no, pending, attempted,
                   appended, failed, written>>
    /\ UNCHANGED <<scanOnly, ecall, extraVars>>

BatchNext ==
    \/ SkipPair
    \/ ProcessOk
    \/ ProcessFailed
    \/ ProcessEscapes
    \/ Interrupt
    \/ KillBetween
    \/ KillDuringWrite
    \/ FinishRun
    \/ Resume
    \/ ResumeReadError
    \/ Report

SpecBatch == BatchInit /\ [][BatchNext]_vars

-----------------------------------------------------------------------------
(* The extraction entry points of the OCR wrappers (pod_ocr.py of          *)
(* paddleocr, easyocr, trocr and got-ocr) and the error records of the     *)
(* batch drivers.  image_path and processing_time play no part in what is  *)
(* checked and are left out of the records.                                *)

Wrappers == {"paddleocr", "easyocr", "trocr", "got-ocr"}

\* the stages of an extraction: loading the engine, the back-end call, the
\* normalization of its texts, their classification into fields
Stages == {"get_ocr", "backend", "normalize", "classify"}

\* str(e) of the exception a stage raises
Messages == {<<>>, <<"e">>}

\* what the classification of the texts may give for a field
ParsedVals == {None, StrV(<<"a">>)}

\* one call's input: the image, the stage that raises an Exception ("none": no
\* stage does) and its message, whether the back-end finds no text, whether it is
\* still running after 30 seconds, and what it reads
ExtractArgs ==
    [ path : {"f1"},
      fail : Stages \cup {"none"},
      msg : Messages,
      empty : BOOLEAN,
      timeout : BOOLEAN,
      street_number : ParsedVals,
      street_name : ParsedVals,
      unit_number : ParsedVals,
      conf : {"0.0", "0.97"} ]

AddressKeys == {"street_number", "street_name", "unit_number"}

\* the record of the "except Exception as e" clause, and of got-ocr's timeout
ErrorRecord(path, msg) ==
    Dict([k \in AddressKeys \cup {"filename", "confidence", "error"} |->
            IF k \in AddressKeys THEN None
            ELSE IF k = "filename" THEN StrV(<<path>>)
            ELSE IF k = "confidence" THEN NumV("0.0")
            ELSE StrV(msg)])

\* the record returned when the back-end finds no text
EmptyRecord(w) ==
    Dict([k \in AddressKeys \cup {"confidence"} |->
            IF k \in AddressKeys THEN None
            ELSE NumV(IF w = "got-ocr" THEN "1.0" ELSE "0.0")])

\* the record of a completed extraction
ResultRecord(w, arg) ==
    Dict([k \in AddressKeys \cup {"filename", "confidence"} |->
            IF k \in AddressKeys THEN arg[k]
            ELSE IF k = "filename" THEN StrV(<<arg.path>>)
            ELSE NumV(IF w \in {"trocr", "got-ocr"} THEN "1.0" ELSE arg.conf)])

\* a try block that starts after the engine is loaded (a faulty variant)
InsideTryAfterLoad(w, stage) == stage # "get_ocr"

\* whether a stage runs inside the try block of the wrapper's extraction
InsideTry(w, stage) == TRUE

Returned(v) == [raised |-> FALSE, ret |-> v]

Raised == [raised |-> TRUE, ret |-> None]

\* the body of extract_numbers (got-ocr: of _extract_numbers_impl)
extract_numbers_impl(w, arg) ==
    IF arg.fail # "none"
    THEN IF InsideTry(w, arg.fail) THEN Returned(ErrorRecord(arg.path, arg.msg))
         ELSE Raised
    ELSE IF arg.empty /\ w # "trocr" THEN Returned(EmptyRecord(w))
    ELSE Returned(ResultRecord(w, arg))

\* got-ocr's extract_numbers: the body runs in a thread joined for 30 seconds;
\* run_ocr keeps its result in result_container or str(e) in error_container
extract_numbers_got(arg) ==
    LET r == extract_numbers_impl("got-ocr", arg)
        result_container == IF r.raised THEN None ELSE r.ret
        error_container == IF r.raised THEN StrV(arg.msg) ELSE None
    IN  IF arg.timeout THEN Returned(ErrorRecord(arg.path, <<"Timeout after 30s">>))
        ELSE IF error_container # None /\ error_container.a # <<>>
        THEN Returned(ErrorRecord(arg.path, error_container.a))
        ELSE Returned(result_container)

extract_numbers(w, arg) ==
    IF w = "got-ocr" THEN extract_numbers_got(arg) ELSE extract_numbers_impl(w, arg)

\* {image_path: extract_numbers(image_path)}, or {image_path: {'error': str(e)}}
process_single_image(w, arg) ==
    LET r == extract_numbers(w, arg)
    IN  IF r.raised
        THEN Returned(Dict([p \in {arg.path} |-> Dict([k \in {"error"} |-> StrV(arg.msg)])]))
        ELSE Returned(Dict([p \in {arg.path} |-> r.ret]))

\* the record a batch driver writes to the log for a pair whose extraction failed
DriverErrorRecord(d, m, f, kind, msg) ==
    IF d = "classification" THEN ErrorData(m, f, kind)
    ELSE Dict([k \in {"error"} |-> StrV(msg)])

ExtractInit ==
    /\ ecall = NoCall
    /\ ExtraIdle
    /\ BatchIdle
    /\ log = <<>>
    /\ results = <<>>
    /\ raised = FALSE
    /\ phase = "extract"
    /\ processed_keys = {}
    /\ pos = 1
    /\ current_block = <<>>
    /\ brace_count = 0
    /\ in_block = FALSE
    /\ unique_results = <<>>
    /\ passes = 0
    /\ agg1 = <<>>
    /\ origin = <<>>
    /\ block_start = 0
    /\ attempts = <<>>
    /\ idx_passes = 0
    /\ keys1 = {}

\* a call of a wrapper's extract_numbers
CallExtractNumbers ==
    /\ ecall.entry = "none"
    /\ \E w \in Wrappers : \E arg \in ExtractArgs :
          /\ arg.timeout => w = "got-ocr"
          /\ LET r == extract_numbers(w, arg)
             IN  ecall' = [entry |-> "extract_numbers", wrapper |-> w, arg |-> arg,
                           raised |-> r.raised, ret |-> r.ret]
    /\ UNCHANGED <<scanVars, batchOnly, extraVars>>

\* a call of a wrapper's process_single_image
CallProcessSingleImage ==
    /\ ecall.entry = "none"
    /\ \E w \in Wrappers : \E arg \in ExtractArgs :
          /\ arg.timeout => w = "got-ocr"
          /\ LET r == process_single_image(w, arg)
             IN  ecall' = [entry |-> "process_single_image", wrapper |-> w, arg |-> arg,
                           raised |-> r.raised, ret |-> r.ret.o[arg.path]]
    /\ UNCHANGED <<scanVars, batchOnly, extraVars>>

\* a batch driver's except clause builds the record of a failed pair
WriteDriverErrorRecord ==
    /\ ecall.entry = "none"
    /\ \E d \in {"classification", "combined"} : \E kind \in FailureKinds(d) :
       \E msg \in Messages :
          /\ Catches(d, kind)
          /\ ecall' = [entry |-> "driver_error", wrapper |-> d,
                       arg |-> [kind |-> kind, msg |-> msg], raised |-> FALSE,
                       ret |-> DriverErrorRecord(d, "m1", "f1", kind, msg)]
    /\ UNCHANGED <<scanVars, batchOnly, extraVars>>

\* the caller has taken the record: the entry points are idle again
TakeResult ==
    /\ ecall.entry # "none"
    /\ ecall' = NoCall
    /\ UNCHANGED <<scanVars, batchOnly, extraVars>>

ExtractNext ==
    \/ CallExtractNumbers
    \/ CallProcessSingleImage
    \/ WriteDriverErrorRecord
    \/ TakeResult

SpecExtract == ExtractInit /\ [][ExtractNext]_vars

-----------------------------------------------------------------------------
(* Strings of the recognizers' texts, character by character, and the      *)
(* str methods and regular expressions the wrappers apply to them.         *)

UpperLetters == <<"A", "B", "C", "D", "E", "F", "G", "H", "I", "J", "K", "L", "M", "N", "O", "P", "Q", "R", "S", "T", "U", "V", "W", "X", "Y", "Z">>

LowerLetters == <<"a", "b", "c", "d", "e", "f", "g", "h", "i", "j", "k", "l", "m", "n", "o", "p", "q", "r", "s", "t", "u", "v", "w", "x", "y", "z">>

Range(s) == { s[i] : i \in 1..Len(s) }

\* \d
DigitChars == Range(<<"0", "1", "2", "3", "4", "5", "6", "7", "8", "9">>)

IsDigit(c) == c \in DigitChars

\* [A-Z] without and with re.IGNORECASE, [a-z]
IsUpper(c) == c \in Range(UpperLetters)

IsLower(c) == c \in Range(LowerLetters)

IsLetter(c) == IsUpper(c) \/ IsLower(c)

\* \s, and what str.strip() removes
SpaceChars == {" ", "\t", "\n"}

IsSpace(c) == c \in SpaceChars

PositionIn(s, c) == CHOOSE i \in 1..Len(s) : s[i] = c

\* str.upper() and str.lower(), one character
ToUpper(c) == IF IsLower(c) THEN UpperLetters[PositionIn(LowerLetters, c)] ELSE c

ToLower(c) == IF IsUpper(c) THEN LowerLetters[PositionIn(UpperLetters, c)] ELSE c

upper(s) == [i \in 1..Len(s) |-> ToUpper(s[i])]

lower(s) == [i \in 1..Len(s) |-> ToLower(s[i])]

\* str.isalpha(): not empty, letters only
isalpha(s) == s # <<>> /\ \A i \in 1..Len(s) : IsLetter(s[i])

\* str.isupper(): at least one cased character, none of them lower-case
isupper(s) == (\E i \in 1..Len(s) : IsUpper(s[i])) /\ \A i \in 1..Len(s) : ~IsLower(s[i])

RECURSIVE lstrip(_, _)
lstrip(s, cs) == IF s # <<>> /\ s[1] \in cs THEN lstrip(Tail(s), cs) ELSE s

RECURSIVE rstrip(_, _)
rstrip(s, cs) ==
    IF s # <<>> /\ s[Len(s)] \in cs THEN rstrip(SubSeq(s, 1, Len(s) - 1), cs) ELSE s

\* text.strip()
strip(s) == rstrip(lstrip(s, SpaceChars), SpaceChars)

\* text.strip('.,;:()[]"')
strip_punct(s) == rstrip(lstrip(s, Range(<<".", ",", ";", ":", "(", ")", "[", "]", "\"">>)), Range(<<".", ",", ";", ":", "(", ")", "[", "]", "\"">>))

RECURSIVE join(_, _)
\* sep.join(parts)
join(parts, sep) ==
    IF parts = <<>> THEN <<>>
    ELSE IF Len(parts) = 1 THEN parts[1]
    ELSE parts[1] \o sep \o join(Tail(parts), sep)

RECURSIVE RunLength(_, _, _)
\* how many characters of s from position i on are in the class (a greedy x*)
RunLength(s, i, cs) ==
    IF i <= Len(s) /\ s[i] \in cs THEN 1 + RunLength(s, i + 1, cs) ELSE 0

\* the word is in s at position i, letter case ignored (re.IGNORECASE)
WordAt(s, i, word) ==
    /\ i + Len(word) - 1 <= Len(s)
    /\ \A k \in 1..Len(word) : ToLower(s[i + k - 1]) = ToLower(word[k])

\* a match of the pattern as the value the code takes from it
Text(s) == StrV(s)

\* re.match(r'^(\d{1,6}[A-Z]?)$', ...): one digit more than the wrappers allow
parse_street_number_six(text) ==
    LET t == strip(text)
        d == RunLength(t, 1, DigitChars)
    IN  IF d >= 1 /\ d <= 6 /\ (Len(t) = d \/ (Len(t) = d + 1 /\ IsLetter(t[d + 1])))
        THEN Text(t) ELSE None

\* re.match(r'^(\d{1,5}[A-Z]?)$', text.strip(), re.IGNORECASE), group(1) or None
parse_street_number(text) ==
    LET t == strip(text)
        d == RunLength(t, 1, DigitChars)
    IN  IF d >= 1 /\ d <= 5 /\ (Len(t) = d \/ (Len(t) = d + 1 /\ IsLetter(t[d + 1])))
        THEN Text(t) ELSE None

\* the designators of the unit pattern, in the order of its alternation
Designators == << <<"A", "p", "t">>, <<"U", "n", "i", "t">>, <<"#">>, <<"S", "u", "i", "t", "e">> >>

\* the end of the match of (Apt|Unit|#|Suite)\s*(\d+[A-Z]?) that starts at i, or 0:
\* the first designator that is there, all the whitespace, all the digits (at least
\* one), and a letter when one follows
UnitMatchEnd(s, i) ==
    LET ds == { k \in 1..Len(Designators) : WordAt(s, i, Designators[k]) }
    IN  IF ds = {} THEN 0
        ELSE LET k == CHOOSE x \in ds : \A y \in ds : x <= y
                 a == i + Len(Designators[k])
                 b == a + RunLength(s, a, SpaceChars)
                 n == RunLength(s, b, DigitChars)
                 c == b + n
             IN  IF n = 0 THEN 0
                 ELSE IF c <= Len(s) /\ IsLetter(s[c]) THEN c ELSE c - 1

\* re.match of the unit pattern: only a match at the start of the text
unit_match_at_start(s) ==
    IF UnitMatchEnd(s, 1) > 0 THEN Text(SubSeq(s, 1, UnitMatchEnd(s, 1))) ELSE None

\* re.search of the unit pattern: the match at the first position that has one
unit_search(s) ==
    LET starts == { i \in 1..Len(s) : UnitMatchEnd(s, i) > 0 }
    IN  IF starts = {} THEN None
        ELSE LET i == CHOOSE x \in starts : \A y \in starts : x <= y
             IN  Text(SubSeq(s, i, UnitMatchEnd(s, i)))

\* re.search(r'(Apt|Unit|#|Suite)\s*(\d+[A-Z]?)', text, re.IGNORECASE), group(0) or None
parse_unit_number(text) == unit_search(text)

-----------------------------------------------------------------------------
(* The two field parsers applied to texts (specification SpecParse).       *)

RECURSIVE StringsOver(_, _)
\* the strings of at most n pieces taken from a set of pieces
StringsOver(pieces, n) ==
    IF n = 0 THEN {<<>>}
    ELSE LET shorter == StringsOver(pieces, n - 1)
         IN  shorter \cup { p \o s : p \in pieces, s \in shorter }

\* texts a street number may be read from: digits, letters of both cases, blanks,
\* a hyphen
NumberTexts == StringsOver({ <<"1">>, <<"A">>, <<"a">>, <<" ">>, <<"-">> }, MaxNumberText)

\* texts a unit number may be read from: designators in several cases, blanks,
\* digits, letters, other words
UnitTexts ==
    StringsOver({ <<"A", "p", "t">>, <<"U", "N", "I", "T">>, <<"#">>, <<"s", "u", "i", "t", "e">>, <<" ">>, <<"5">>, <<"B">>, <<"x", " ">> },
                MaxUnitPieces)

\* a recognized text, before a parser is applied to it
TextRead(text) ==
    [entry |-> "text", wrapper |-> "none", arg |-> text, raised |-> FALSE, ret |-> None]

ParseInit ==
    /\ ecall \in { TextRead(text) : text \in NumberTexts \cup UnitTexts }
    /\ ExtraIdle
    /\ BatchIdle
    /\ log = <<>>
    /\ results = <<>>
    /\ raised = FALSE
    /\ phase = "parse"
    /\ processed_keys = {}
    /\ pos = 1
    /\ current_block = <<>>
    /\ brace_count = 0
    /\ in_block = FALSE
    /\ unique_results = <<>>
    /\ passes = 0
    /\ agg1 = <<>>
    /\ origin = <<>>
    /\ block_start = 0
    /\ attempts = <<>>
    /\ idx_passes = 0
    /\ keys1 = {}

\* parse_street_number(text)
CallParseStreetNumber ==
    /\ ecall.entry = "text"
    /\ ecall' = [ecall EXCEPT !.entry = "parse_street_number",
                              !.ret = parse_street_number(ecall.arg)]
    /\ UNCHANGED <<scanVars, batchOnly, extraVars>>

\* parse_unit_number(text)
CallParseUnitNumber ==
    /\ ecall.entry = "text"
    /\ ecall' = [ecall EXCEPT !.entry = "parse_unit_number",
                              !.ret = parse_unit_number(ecall.arg)]
    /\ UNCHANGED <<scanVars, batchOnly, extraVars>>

ParseNext ==
    \/ CallParseStreetNumber
    \/ CallParseUnitNumber

SpecParse == ParseInit /\ [][ParseNext]_vars

-----------------------------------------------------------------------------
(* Street names, token normalization and the classification loops of the   *)
(* four wrappers.                                                          *)

\* the alternation street_types
StreetTypes ==
    { <<"S", "t", "r", "e", "e", "t">>, <<"S", "t">>, <<"A", "v", "e", "n", "u", "e">>, <<"A", "v", "e">>, <<"R", "o", "a", "d">>, <<"R", "d">>, <<"D", "r", "i", "v", "e">>, <<"D", "r">>,
      <<"L", "a", "n", "e">>, <<"L", "n">>, <<"C", "o", "u", "r", "t">>, <<"C", "t">>, <<"B", "o", "u", "l", "e", "v", "a", "r", "d">>, <<"B", "l", "v", "d">>, <<"W", "a", "y">>,
      <<"P", "l", "a", "c", "e">>, <<"P", "l">>, <<"C", "i", "r", "c", "l", "e">>, <<"C", "i", "r">>, <<"C", "l", "o", "s", "e">>, <<"T", "e", "r", "r", "a", "c", "e">>, <<"T", "e", "r">>,
      <<"T", "r", "a", "i", "l">>, <<"T", "r", "l">>, <<"P", "a", "r", "k">>, <<"P", "a", "r", "k", "w", "a", "y">>, <<"P", "k", "w", "y">> }

\* re.search(street_types, text, re.IGNORECASE)
HasStreetType(text) ==
    \E i \in 1..Len(text) : \E w \in StreetTypes : WordAt(text, i, w)

\* the Title-case words of the set excluded
ExcludedTitle ==
    { <<"T", "h", "e">>, <<"D", "e", "a", "r">>, <<"C", "u", "s", "t", "o", "m", "e", "r">>, <<"P", "r", "o", "o", "f">>, <<"D", "e", "l", "i", "v", "e", "r", "y">>, <<"T", "r", "a", "c", "k", "i", "n", "g">>,
      <<"N", "u", "m", "b", "e", "r">>, <<"W", "e", "i", "g", "h", "t">>, <<"S", "e", "r", "v", "i", "c", "e">>, <<"S", "h", "i", "p", "p", "e", "d">>, <<"B", "i", "l", "l", "e", "d">>, <<"D", "e", "l", "i", "v", "e", "r", "e", "d">>,
      <<"L", "e", "f", "t">>, <<"R", "e", "f", "e", "r", "e", "n", "c", "e">>, <<"P", "l", "e", "a", "s", "e">>, <<"P", "r", "i", "n", "t">>, <<"S", "i", "n", "c", "e", "r", "e", "l", "y">>, <<"F", "r", "o", "n", "t">>,
      <<"D", "o", "o", "r">> }

\* the set excluded of paddleocr and got-ocr: the same words in upper case too
ExcludedBoth == ExcludedTitle \cup { upper(w) : w \in ExcludedTitle }

\* ^[A-Z][a-z]{2,}$
IsTitleWord(s) ==
    /\ Len(s) >= 3
    /\ IsUpper(s[1])
    /\ \A i \in 2..Len(s) : IsLower(s[i])

\* ^[A-Z]{3,}$
IsCapsWord(s) == Len(s) >= 3 /\ \A i \in 1..Len(s) : IsUpper(s[i])

\* ^[A-Z][A-Z\s]+[A-Z]$
IsCapsPhrase(s) ==
    /\ Len(s) >= 3
    /\ IsUpper(s[1])
    /\ IsUpper(s[Len(s)])
    /\ \A i \in 2..(Len(s) - 1) : IsUpper(s[i]) \/ IsSpace(s[i])

\* parse_street_name of paddleocr and got-ocr
parse_street_name_caps(text) ==
    LET normalized == strip(text)
    IN  IF HasStreetType(text) THEN Text(strip(text))
        ELSE IF /\ IsTitleWord(normalized) \/ IsCapsWord(normalized)
                      \/ IsCapsPhrase(normalized)
                /\ normalized \notin ExcludedBoth
                /\ upper(normalized) \notin ExcludedBoth
        THEN Text(normalized)
        ELSE None

\* parse_street_name of easyocr and trocr
parse_street_name_title(text) ==
    IF HasStreetType(text) THEN Text(strip(text))
    ELSE IF IsTitleWord(strip(text)) /\ strip(text) \notin ExcludedTitle
    THEN Text(strip(text))
    ELSE None

parse_street_name(w, text) ==
    IF w \in {"paddleocr", "got-ocr"} THEN parse_street_name_caps(text)
    ELSE parse_street_name_title(text)

\* confidence_threshold, in thousandths
ConfidenceThreshold == 950

\* a recognized text and its score, in thousandths
Scored(text, score) == [text |-> text, score |-> score]

Texts(tokens) == [i \in 1..Len(tokens) |-> tokens[i].text]

RECURSIVE Eligible(_)
\* the texts whose score is at least the threshold, in order
Eligible(tokens) ==
    IF tokens = <<>> THEN <<>>
    ELSE IF tokens[1].score >= ConfidenceThreshold
    THEN <<tokens[1].text>> \o Eligible(Tail(tokens))
    ELSE Eligible(Tail(tokens))

\* the all-caps words collected so far become one text
FlushCaps(current_caps_words) ==
    IF current_caps_words = <<>> THEN <<>> ELSE <<join(current_caps_words, <<" ">>)>>

RECURSIVE CombineCaps(_, _)
\* the first pass over extracted_texts: combined_texts
CombineCaps(extracted_texts, current_caps_words) ==
    IF extracted_texts = <<>> THEN FlushCaps(current_caps_words)
    ELSE LET clean == strip_punct(extracted_texts[1])
         IN  IF isupper(clean) /\ isalpha(clean)
             THEN CombineCaps(Tail(extracted_texts), Append(current_caps_words, clean))
             ELSE FlushCaps(current_caps_words) \o <<clean>>
                  \o CombineCaps(Tail(extracted_texts), <<>>)

\* the street number, with the next text when it is a single letter
WithSuffix(street_number, texts, i) ==
    IF street_number # None /\ i + 1 <= Len(texts)
       /\ Len(strip_punct(texts[i + 1])) = 1 /\ isalpha(strip_punct(texts[i + 1]))
    THEN Text(street_number.a \o strip_punct(texts[i + 1]))
    ELSE street_number

\* the fields found so far
Fields(number, unit, names) ==
    [street_number |-> number, unit_number |-> unit, street_names |-> names]

RECURSIVE ClassifyLoopLast(_, _, _, _)
\* a faulty variant of the loop: a later matching text replaces the street number
ClassifyLoopLast(w, texts, i, f) ==
    IF i > Len(texts) THEN f
    ELSE LET text == IF w \in {"trocr", "got-ocr"} THEN strip_punct(texts[i])
                     ELSE texts[i]
             found == IF w \in {"paddleocr", "got-ocr"}
                      THEN WithSuffix(parse_street_number(text), texts, i)
                      ELSE parse_street_number(text)
             number == IF found # None THEN found ELSE f.street_number
             unit == IF f.unit_number # None \/ w = "got-ocr" THEN f.unit_number
                     ELSE parse_unit_number(text)
             name == parse_street_name(w, text)
             names == IF name # None /\ name.a # <<>>
                      THEN Append(f.street_names, name.a) ELSE f.street_names
         IN  ClassifyLoopLast(w, texts, i + 1, Fields(number, unit, names))

RECURSIVE ClassifyLoop(_, _, _, _)
\* the loop over the texts from position i on, with the fields found before it
ClassifyLoop(w, texts, i, f) ==
    IF i > Len(texts) THEN f
    ELSE LET text == IF w \in {"trocr", "got-ocr"} THEN strip_punct(texts[i])
                     ELSE texts[i]
             number == IF f.street_number # None THEN f.street_number
                       ELSE IF w \in {"paddleocr", "got-ocr"}
                       THEN WithSuffix(parse_street_number(text), texts, i)
                       ELSE parse_street_number(text)
             unit == IF f.unit_number # None \/ w = "got-ocr" THEN f.unit_number
                     ELSE parse_unit_number(text)
             name == parse_street_name(w, text)
             names == IF name # None /\ name.a # <<>>
                      THEN Append(f.street_names, name.a) ELSE f.street_names
         IN  ClassifyLoop(w, texts, i + 1, Fields(number, unit, names))

\* the texts a wrapper's loop goes through
Candidates(w, tokens) ==
    IF w = "paddleocr" THEN CombineCaps(Eligible(tokens), <<>>)
    ELSE IF w = "easyocr" THEN Eligible(tokens)
    ELSE IF w = "got-ocr" THEN CombineCaps(Texts(tokens), <<>>)
    ELSE Texts(tokens)

\* the text a generative back-end returned for these tokens
FullText(tokens) == join(Texts(tokens), <<" ">>)

\* the three fields a wrapper's extract_numbers gives for the recognized tokens
Classify(w, tokens) ==
    LET start == Fields(None,
                        IF w = "trocr" THEN parse_unit_number(FullText(tokens)) ELSE None,
                        <<>>)
        f == ClassifyLoop(w, Candidates(w, tokens), 1, start)
    IN  [ candidates |-> Candidates(w, tokens),
          street_number |-> f.street_number,
          street_name |-> IF f.street_names = <<>> THEN None
                          ELSE Text(join(f.street_names, <<" ">>)),
          unit_number |-> IF w = "got-ocr" /\ f.unit_number = None
                          THEN parse_unit_number(FullText(tokens))
                          ELSE f.unit_number ]

-----------------------------------------------------------------------------
(* The wrappers' extraction applied to recognized tokens (specification    *)
(* SpecClassify).                                                          *)

\* the tokens a back-end may recognize: numbers, a suffix letter above and below the
\* threshold, a Title-case word, all-caps words, a designator and its number
Vocabulary ==
    { Scored(<<"1", "7">>, 990), Scored(<<"a">>, 990), Scored(<<"a">>, 500),
      Scored(<<"M", "a", "i", "n">>, 990), Scored(<<"N", "E", "L", "S">>, 990), Scored(<<"O", "N">>, 990),
      Scored(<<"S">>, 990), Scored(<<"6", "8", ".">>, 990), Scored(<<"A", "p", "t">>, 990),
      Scored(<<"5", "B">>, 990) }

RECURSIVE TokenStreams(_)
\* the token sequences of at most n tokens
TokenStreams(n) ==
    IF n = 0 THEN {<<>>}
    ELSE LET shorter == TokenStreams(n - 1)
         IN  shorter \cup { <<t>> \o s : t \in Vocabulary, s \in shorter }

\* what a back-end recognized, before a wrapper works on it
Recognized(tokens) ==
    [entry |-> "tokens", wrapper |-> "none", arg |-> tokens, raised |-> FALSE,
     ret |-> None]

ClassifyInit ==
    /\ ecall \in { Recognized(tokens) : tokens \in TokenStreams(MaxTokens) }
    /\ ExtraIdle
    /\ BatchIdle
    /\ log = <<>>
    /\ results = <<>>
    /\ raised = FALSE
    /\ phase = "classify"
    /\ processed_keys = {}
    /\ pos = 1
    /\ current_block = <<>>
    /\ brace_count = 0
    /\ in_block = FALSE
    /\ unique_results = <<>>
    /\ passes = 0
    /\ agg1 = <<>>
    /\ origin = <<>>
    /\ block_start = 0
    /\ attempts = <<>>
    /\ idx_passes = 0
    /\ keys1 = {}

\* a wrapper's extract_numbers normalizes and classifies the tokens
CallClassify ==
    /\ ecall.entry = "tokens"
    /\ \E w \in Wrappers :
          ecall' = [ecall EXCEPT !.entry = "classify", !.wrapper = w,
                                 !.ret = Classify(w, ecall.arg)]
    /\ UNCHANGED <<scanVars, batchOnly, extraVars>>

ClassifyNext == CallClassify

SpecClassify == ClassifyInit /\ [][ClassifyNext]_vars

-----------------------------------------------------------------------------
(* got-ocr's extract_numbers as threads (specification SpecTimeout):       *)
(* process_batch calls extract_numbers for one image after the other; each *)
(* call starts a thread that runs _extract_numbers_impl, joins it for 30   *)
(* seconds and returns; a thread still alive then is left running.         *)

\* the names of the images of the directory, in the order of the loop
ImageNames == <<"f1", "f2", "f3", "f4", "f5">>

\* f'Timeout after {timeout_seconds}s'
TimeoutMessage == <<"Timeout after 30s">>

\* what one run of _extract_numbers_impl on the image may meet: the back-end
\* raises or not, finds text or not; escapes tells whether the handler of the impl
\* raises in its turn (traceback.print_exc() on a broken error stream: an OSError,
\* whose message is not empty), so that the exception reaches run_ocr
ThreadArgs(path) ==
    { a \in [ path : {path},
              fail : {"none", "backend"},
              msg : Messages,
              empty : BOOLEAN,
              timeout : {FALSE},
              street_number : {StrV(<<"a">>)},
              street_name : {None},
              unit_number : {None},
              conf : {"0.97"},
              escapes : BOOLEAN ] :
        a.escapes => (a.fail # "none" /\ a.msg # <<>>) }

\* result_container = [None]; error_container = [None]; thread.start()
NewThread(path) ==
    [ path |-> path, state |-> "running", abandoned |-> FALSE,
      result_container |-> None, error_container |-> None ]

\* run_ocr: the result goes to result_container, str(e) of an exception that
\* leaves _extract_numbers_impl to error_container
run_ocr(th, arg) ==
    LET r == extract_numbers_impl("got-ocr", arg)
    IN  IF arg.fail # "none" /\ arg.escapes
        THEN [th EXCEPT !.state = "done", !.error_container = StrV(arg.msg)]
        ELSE [th EXCEPT !.state = "done", !.result_container = r.ret]

\* thread.is_alive()
is_alive(th) == th.state = "running"

\* a record a call returns, and the thread whose container it was read from (0: the
\* record was built by the call itself)
ReturnOf(value, from) == [value |-> value, from |-> from]

\* containers shared by all calls (a faulty variant: module-level containers): the
\* call reads what an abandoned thread has written there since
ReturnAfterJoinShared(ths, k) ==
    IF \E i \in 1..(k - 1) : ths[i].abandoned /\ ths[i].result_container # None
    THEN LET i == CHOOSE x \in 1..(k - 1) :
                     ths[x].abandoned /\ ths[x].result_container # None
         IN  ReturnOf(ths[i].result_container, i)
    ELSE IF ths[k].error_container # None /\ ths[k].error_container.a # <<>>
    THEN ReturnOf(ErrorRecord(ths[k].path, ths[k].error_container.a), 0)
    ELSE ReturnOf(ths[k].result_container, k)

\* "if error_container[0]: return {... 'error': error_container[0] ...}" and
\* "return result_container[0]": the containers are those of the call's own thread
ReturnAfterJoin(ths, k) ==
    IF ths[k].error_container # None /\ ths[k].error_container.a # <<>>
    THEN ReturnOf(ErrorRecord(ths[k].path, ths[k].error_container.a), 0)
    ELSE ReturnOf(ths[k].result_container, k)

\* a call of extract_numbers is waiting in thread.join(timeout=30)
Joining == Len(threads) > Len(returns)

TimeoutInit ==
    /\ ecall = NoCall
    /\ ExtraIdle
    /\ BatchIdle
    /\ log = <<>>
    /\ results = <<>>
    /\ raised = FALSE
    /\ phase = "batch"
    /\ processed_keys = {}
    /\ pos = 1
    /\ current_block = <<>>
    /\ brace_count = 0
    /\ in_block = FALSE
    /\ unique_results = <<>>
    /\ passes = 0
    /\ agg1 = <<>>
    /\ origin = <<>>
    /\ block_start = 0
    /\ attempts = <<>>
    /\ idx_passes = 0
    /\ keys1 = {}

\* process_batch calls extract_numbers for the next image: the thread is started
StartCall ==
    /\ phase = "batch"
    /\ ~Joining
    /\ Len(threads) < MaxCalls
    /\ threads' = Append(threads, NewThread(ImageNames[Len(threads) + 1]))
    /\ UNCHANGED <<returns, output, writers, read_error, lazyVars>>
    /\ UNCHANGED <<scanVars, batchOnly, ecall>>

\* a thread, abandoned or not, comes to the end of run_ocr
ThreadFinish ==
    /\ \E i \in 1..Len(threads) :
          /\ is_alive(threads[i])
          /\ \E arg \in ThreadArgs(threads[i].path) :
                threads' = [threads EXCEPT ![i] = run_ocr(threads[i], arg)]
    /\ UNCHANGED <<returns, output, writers, read_error, lazyVars>>
    /\ UNCHANGED <<scanVars, batchOnly, ecall>>

\* the join ends because the thread has: the call returns what its containers hold
JoinReturns ==
    /\ Joining
    /\ ~is_alive(threads[Len(threads)])
    /\ returns' = Append(returns, ReturnAfterJoin(threads, Len(threads)))
    /\ UNCHANGED <<threads, output, writers, read_error, lazyVars>>
    /\ UNCHANGED <<scanVars, batchOnly, ecall>>

\* the join ends after 30 seconds with the thread alive: the call returns the
\* timeout record and leaves the thread running
JoinTimeout ==
    /\ Joining
    /\ is_alive(threads[Len(threads)])
    /\ returns' = Append(returns,
                         ReturnOf(ErrorRecord(threads[Len(threads)].path, TimeoutMessage), 0))
    /\ threads' = [threads EXCEPT ![Len(threads)].abandoned = TRUE]
    /\ UNCHANGED <<output, writers, read_error, lazyVars>>
    /\ UNCHANGED <<scanVars, batchOnly, ecall>>

\* process_batch: the loop is over, json.dump(results, f)
WriteOutput ==
    /\ phase = "batch"
    /\ ~Joining
    /\ Len(returns) = MaxCalls
    /\ output' = [k \in 1..Len(returns) |-> returns[k].value]
    /\ phase' = "written"
    /\ UNCHANGED <<threads, returns, writers, read_error, lazyVars>>
    /\ UNCHANGED <<log, pos, current_block, brace_count, in_block, results, raised,
                   unique_results, passes, agg1, origin, block_start, attempts,
                   processed_keys, idx_passes, keys1>>
    /\ UNCHANGED <<batchOnly, ecall>>

TimeoutNext ==
    \/ StartCall
    \/ ThreadFinish
    \/ JoinReturns
    \/ JoinTimeout
    \/ WriteOutput

SpecTimeout == TimeoutInit /\ [][TimeoutNext]_vars

-----------------------------------------------------------------------------
(* Batch runs appending to one log at the same time (specification         *)
(* SpecAppend).  Each run has opened the log with open(path, "a") and      *)
(* writes an entry with file.write(entry); file.flush().  Nothing in the   *)
(* drivers takes a lock: a flush hands the text to the operating system in *)
(* one write call, or, when that call writes only part of it, in a second  *)
(* call for the rest; each call appends at the end the file has then.      *)

\* the model each run benchmarks
RunModels == <<"m1", "m2", "m3", "m4">>

\* the images a run has still to process when the runs are observed
RunFiles == <<"f1">>

\* a run: what it has still to process, the lines of the flush under way that are
\* not yet in the file, whether a write call of that flush came back short, and
\* (history) for each entry it wrote the positions of its lines in the log
Producer(model) ==
    [ model |-> model, todo |-> RunFiles, buf |-> <<>>, short |-> FALSE, blocks |-> <<>> ]

\* the positions n lines appended to the file take
Landed(file, n) == [i \in 1..n |-> Len(file) + i]

\* the run's record once the first n lines of its buffer are written
AfterWrite(w, file, n) ==
    [w EXCEPT !.buf = SubSeq(w.buf, n + 1, Len(w.buf)),
              !.short = n < Len(w.buf),
              !.blocks[Len(w.blocks)] = w.blocks[Len(w.blocks)] \o Landed(file, n)]

AppendInit ==
    /\ ecall = NoCall
    /\ threads = <<>>
    /\ returns = <<>>
    /\ output = <<>>
    /\ read_error = FALSE
    /\ _model = <<>>
    /\ loads = 0
    /\ writers = [p \in 1..MaxProducers |-> Producer(RunModels[p])]
    /\ BatchIdle
    /\ log = <<>>
    /\ results = <<>>
    /\ raised = FALSE
    /\ phase = "append"
    /\ processed_keys = {}
    /\ pos = 1
    /\ current_block = <<>>
    /\ brace_count = 0
    /\ in_block = FALSE
    /\ unique_results = <<>>
    /\ passes = 0
    /\ agg1 = <<>>
    /\ origin = <<>>
    /\ block_start = 0
    /\ attempts = <<>>
    /\ idx_passes = 0
    /\ keys1 = {}

\* log_f.write(log_entry): the entry of the run's next pair is in the file object
WriteEntry ==
    /\ \E p \in 1..Len(writers) :
          /\ writers[p].buf = <<>>
          /\ writers[p].todo # <<>>
          /\ writers' = [writers EXCEPT
                ![p].buf = OkWrite("classification", writers[p].model,
                                   Head(writers[p].todo)).lines,
                ![p].todo = Tail(writers[p].todo),
                ![p].blocks = Append(writers[p].blocks, <<>>)]
    /\ UNCHANGED <<log, threads, returns, output, read_error, lazyVars>>
    /\ UNCHANGED <<pos, current_block, brace_count, in_block, results, raised,
                   phase, unique_results, passes, agg1, origin, block_start, attempts,
                   processed_keys, idx_passes, keys1>>
    /\ UNCHANGED <<batchOnly, ecall>>

\* log_f.flush(): one write call appends all the text still to write
FlushWhole ==
    /\ \E p \in 1..Len(writers) :
          /\ writers[p].buf # <<>>
          /\ log' = log \o writers[p].buf
          /\ writers' = [writers EXCEPT
                ![p] = AfterWrite(writers[p], log, Len(writers[p].buf))]
    /\ UNCHANGED <<threads, returns, output, read_error, lazyVars>>
    /\ UNCHANGED <<pos, current_block, brace_count, in_block, results, raised,
                   phase, unique_results, passes, agg1, origin, block_start, attempts,
                   processed_keys, idx_passes, keys1>>
    /\ UNCHANGED <<batchOnly, ecall>>

\* log_f.flush(): the write call appends only the first lines of the text (a short
\* write); the flush goes on with a second call for the rest
FlushShort ==
    /\ \E p \in 1..Len(writers) :
          /\ ~writers[p].short
          /\ \E n \in 1..(Len(writers[p].buf) - 1) :
                /\ log' = log \o SubSeq(writers[p].buf, 1, n)
                /\ writers' = [writers EXCEPT ![p] = AfterWrite(writers[p], log, n)]
    /\ UNCHANGED <<threads, returns, output, read_error, lazyVars>>
    /\ UNCHANGED <<pos, current_block, brace_count, in_block, results, raised,
                   phase, unique_results, passes, agg1, origin, block_start, attempts,
                   processed_keys, idx_passes, keys1>>
    /\ UNCHANGED <<batchOnly, ecall>>

AppendNext ==
    \/ WriteEntry
    \/ FlushWhole
    \/ FlushShort

SpecAppend == AppendInit /\ [][AppendNext]_vars

-----------------------------------------------------------------------------
(* Properties of the scanner and of the aggregate (specification Spec).    *)

ScanFinished == phase \in {"dedup", "done"} \/ (phase = "failed" /\ pos > Len(log))

RECURSIVE BlockText(_, _, _)
\* the text the lines i..j of a file put in the buffer, line i being a tag line
BlockText(file, i, j) ==
    IF j < i THEN <<>>
    ELSE IF j = i THEN Tail(file[i].toks)
    ELSE BlockText(file, i, j - 1) \o file[j].toks

Balance(toks) == CountOpen(toks) - CountClose(toks)

\* the log grammar's end of a block: the braces read so far are balanced
ClosedAt(file, i, k) ==
    /\ Balance(BlockText(file, i, k)) = 0
    /\ (k > i \/ Tail(file[i].toks) # <<>>)

\* lines i..j are a well-formed block: a tag line, then lines up to the first one
\* at which the braces balance, the whole being one JSON value
WellFormedBlockAt(file, i, j) ==
    /\ 1 <= i /\ i <= j /\ j <= Len(file)
    /\ prefix_match(file[i])
    /\ \A k \in (i + 1)..j : ~prefix_match(file[k])
    /\ \A k \in i..j : file[k].nl
    /\ ClosedAt(file, i, j)
    /\ \A k \in i..(j - 1) : ~ClosedAt(file, i, k)
    /\ json_loads(BlockText(file, i, j)).ok

\* the entries a driver writes, whole
Entries ==
    { c \in Chunks : \E d \in { json_loads(BlockText(c, 1, Len(c))) } :
                       d.ok /\ IsDict(d.val) /\ c[1].toks[1].t = "tag"
                       /\ c = LogEntry(c[1].toks[1].a[1], c[1].toks[1].a[2], d.val) }

Truncations(e) ==
    UNION { { Truncated(e, k, n) : n \in 0..Len(e[k + 1].toks) } : k \in 1..(Len(e) - 1) }

\* the logs made of one well-formed multi-line block and one truncated block whose
\* braces are unbalanced at the end of the file, with the payload of the former
TruncatedTailLogs ==
    { [file |-> e1 \o t, payload |-> json_loads(BlockText(e1, 1, Len(e1))).val] :
        e1 \in { e \in Entries : Len(e) > 1 /\ WellFormedBlockAt(e, 1, Len(e)) },
        t \in { x \in UNION { Truncations(e) : e \in Entries } :
                   Balance(BlockText(x, 1, Len(x))) # 0 } }

\* C1: on a log made of one well-formed multi-line block followed by one truncated
\* block whose braces are still unbalanced at the end of the file, the scan never
\* raises and ends with exactly one entry, the payload of the well-formed block.
C1_TruncatedTailDropped ==
    \A l \in TruncatedTailLogs :
        log = l.file =>
            /\ ~raised
            /\ phase # "failed"
            /\ (ScanFinished => results = <<l.payload>>)

\* C1 witness: such a log has been scanned to its end, the truncated block's
\* parse attempt has been made and one entry is there.
C1_Witness ==
    /\ phase = "done"
    /\ \E l \in TruncatedTailLogs : log = l.file
    /\ Len(results) = 1
    /\ in_block

C3_ReplayIdempotent ==
    /\ passes = 2 => unique_results = agg1
    /\ idx_passes = 2 => processed_keys = keys1

\* C3 witness: a log with several entries, a duplicate key among them, has been
\* fed twice to the aggregate and twice to the resume index.
C3_Witness ==
    /\ passes = 2
    /\ idx_passes = 2
    /\ Len(results) > Len(unique_results)
    /\ Len(unique_results) > 1
    /\ processed_keys # {}

\* C4: a result record written as a tag line and its indented JSON block, then
\* scanned, yields exactly one entry, equal to the record.
C4_RoundTrip ==
    \A a, b, c \in FieldVals :
        (ScanFinished /\ log = LogEntry("m1", "f1", Record("m1", "f1", a, b, c)))
            => results = <<Record("m1", "f1", a, b, c)>>

\* C9: the scanner never raises, and every well-formed block of the log, whatever
\* comes before it, is emitted once the scan is over.
C9_MalformedContained ==
    /\ raised => (pos > Len(log) /\ FeedRaises(results))
    /\ ScanFinished =>
          \A i \in 1..Len(log) : \A j \in i..Len(log) :
              WellFormedBlockAt(log, i, j) =>
                  \E n \in 1..Len(results) :
                      /\ origin[n] = i
                      /\ results[n] = json_loads(BlockText(log, i, j)).val

\* C9 witness: a scan is over in which the block at line 1 did not parse and a
\* well-formed block further down was emitted.
C9_Witness ==
    /\ phase = "done"
    /\ log # <<>>
    /\ prefix_match(log[1])
    /\ \A n \in 1..Len(origin) : origin[n] # 1
    /\ \E i \in 2..Len(log) : \E j \in i..Len(log) :
          WellFormedBlockAt(log, i, j) /\ \E n \in 1..Len(origin) : origin[n] = i

-----------------------------------------------------------------------------
(* The timeout of got-ocr's extract_numbers (specification SpecTimeout).   *)

\* the k-th call of extract_numbers ended on the timeout
TimedOut(k) == threads[k].abandoned

\* C11: when the extraction does not finish within the timeout, extract_numbers
\* returns a record whose error is the timeout message, which no back-end error
\* record carries, with all fields null; what the abandoned computation produces
\* afterwards is returned by no call, this one or a later one, and is in no output.
C11_TimeoutDiscarded ==
    /\ \A k \in 1..Len(returns) :
          /\ TimedOut(k) =>
                /\ returns[k].value = ErrorRecord(threads[k].path, TimeoutMessage)
                /\ Get(returns[k].value, "error") = StrV(TimeoutMessage)
                /\ \A key \in AddressKeys : Get(returns[k].value, key) = None
          /\ (~TimedOut(k) /\ IsDict(returns[k].value)) =>
                Get(returns[k].value, "error") # StrV(TimeoutMessage)
          /\ returns[k].from # 0 =>
                (returns[k].from = k /\ ~TimedOut(returns[k].from))
    /\ output # <<>> =>
          /\ Len(output) = Len(returns)
          /\ \A k \in 1..Len(output) :
                /\ output[k] = returns[k].value
                /\ TimedOut(k) => output[k] = ErrorRecord(threads[k].path, TimeoutMessage)

\* the first call timed out, its thread has since produced a result, a later call
\* returned the result of its own thread, and the output file is written
C11_Witness ==
    /\ phase = "written"
    /\ TimedOut(1)
    /\ ~is_alive(threads[1])
    /\ threads[1].result_container # None
    /\ Get(threads[1].result_container, "street_number") = StrV(<<"a">>)
    /\ ~TimedOut(2)
    /\ returns[2].from = 2
    /\ output[1] = ErrorRecord("f1", TimeoutMessage)

-----------------------------------------------------------------------------
(* Runs appending to one log at the same time (specification SpecAppend).  *)

\* the lines of the block are next to one another in the log
Contiguous(block) == \A i \in 1..(Len(block) - 1) : block[i + 1] = block[i] + 1

\* C18: for any number of producers appending to the same log at the same time,
\* every block in the log is contiguous: no line written by one producer appears
\* between the tag line and the closing line of a block written by another.
C18_BlocksContiguous ==
    \A p \in 1..Len(writers) : \A k \in 1..Len(writers[p].blocks) :
        Contiguous(writers[p].blocks[k])

-----------------------------------------------------------------------------
(* A prior log that cannot be read (specification SpecBatch).              *)

\* C19: if the prior log cannot be opened or read while the resume index is being
\* built, the failure is surfaced to the caller and the batch does not go on to
\* process subjects with an empty or partially built index.
C19_ReadErrorSurfaced ==
    read_error => (raised /\ phase = "unreadable" /\ attempted = {})

\* what run_classification_batch does on a read error: the error leaves main and
\* no subject is processed
C19_ClassificationSurfaces ==
    (read_error /\ driver = "classification") =>
        (raised /\ phase = "unreadable" /\ attempted = {})

-----------------------------------------------------------------------------
(* The blocks of a log and what the scanner does with each (specification  *)
(* Spec).                                                                  *)

\* the elements of a set of numbers in increasing order
Ascending(S) ==
    [ k \in 1..Cardinality(S) |->
        CHOOSE x \in S : Cardinality({ y \in S : y <= x }) = k ]

\* the last line before the tag line that follows line i (the last line of the file
\* when no tag line follows)
BlockLimit(file, i) ==
    IF \E k \in (i + 1)..Len(file) : prefix_match(file[k])
    THEN (CHOOSE k \in (i + 1)..Len(file) :
             prefix_match(file[k]) /\ \A x \in (i + 1)..(k - 1) : ~prefix_match(file[x])) - 1
    ELSE Len(file)

\* the last line of the block that begins at tag line i: the first line at which
\* its braces balance, or else the last line before the next tag line or the end
BlockLast(file, i) ==
    LET closed == { k \in i..BlockLimit(file, i) : ClosedAt(file, i, k) }
    IN  IF closed # {} THEN CHOOSE k \in closed : \A x \in closed : k <= x
        ELSE BlockLimit(file, i)

\* the text of the block that begins at tag line i
BufferedText(file, i) == BlockText(file, i, BlockLast(file, i))

\* the tag lines whose block has text, and those whose text is JSON
BlocksWithText(file) ==
    { i \in 1..Len(file) : prefix_match(file[i]) /\ BufferedText(file, i) # <<>> }

ParsingBlocks(file) ==
    { i \in BlocksWithText(file) : json_loads(BufferedText(file, i)).ok }

\* the scan has just come to the end of the file: what the scanner returns
ScanOver == phase = "dedup" \/ (phase = "failed" /\ pos > Len(log))

\* C21: the scanner emits exactly one entry for each block whose buffered text
\* parses as JSON, and the entries are in the order of the tag lines of their
\* blocks in the file.
C21_OneEntryPerParsedBlockInOrder ==
    ScanOver =>
        LET starts == Ascending(ParsingBlocks(log))
        IN  /\ origin = starts
            /\ results = [ k \in 1..Len(starts) |->
                             json_loads(BufferedText(log, starts[k])).val ]

\* a scan is over that emitted two entries with different payloads and skipped a
\* block between them whose text is no JSON
C21_Witness ==
    /\ ScanFinished
    /\ Len(results) >= 2
    /\ results[1] # results[2]
    /\ \E i \in BlocksWithText(log) \ ParsingBlocks(log) :
          origin[1] < i /\ i < origin[2]

\* C22: every block with a non-empty buffer receives exactly one parse attempt, on
\* the whole of its text, made when its brace count returns to zero, when the next
\* tag line arrives or at the end of the stream, whichever comes first; while a
\* block is being captured the buffer holds all its text so far.
C22_OneAttemptPerBlock ==
    /\ (phase = "scan" /\ in_block) =>
          current_block = BlockText(log, block_start, pos - 1)
    /\ ScanOver =>
          LET starts == Ascending(BlocksWithText(log))
          IN  attempts = [ k \in 1..Len(starts) |->
                             [start |-> starts[k], text |-> BufferedText(log, starts[k])] ]

\* a scan is over in which one block was flushed by the tag line that followed it,
\* one was closed by its braces and one was parsed at the end of the file
C22_Witness ==
    /\ ScanFinished
    /\ Len(attempts) >= 3
    /\ \E k \in 1..Len(attempts) :
          /\ Balance(attempts[k].text) # 0
          /\ BlockLimit(log, attempts[k].start) < Len(log)
    /\ \E k \in 1..Len(attempts) :
          Balance(attempts[k].text) = 0 /\ Len(attempts[k].text) > 1
    /\ Balance(attempts[Len(attempts)].text) # 0
    /\ BlockLimit(log, attempts[Len(attempts)].start) = Len(log)

-----------------------------------------------------------------------------
(* The scanner's state (specification Spec).                               *)

\* C28: after every processed line, an idle scanner has an empty buffer and a brace
\* count of zero, and a capturing scanner has a non-zero brace count or a buffer
\* with no text in it.
C28_ScannerStateInvariant ==
    /\ ~in_block => (current_block = <<>> /\ brace_count = 0)
    /\ in_block => (brace_count # 0 \/ current_block = <<>>)

\* lines have been processed, a block was parsed and closed, and the scanner is
\* now capturing after a tag line with nothing behind it: brace count zero, buffer
\* empty
C28_Witness ==
    /\ phase = "scan"
    /\ pos > 2
    /\ Len(attempts) >= 1
    /\ in_block
    /\ brace_count = 0
    /\ current_block = <<>>

-----------------------------------------------------------------------------
(* Entries written by a batch run (specification SpecBatch).               *)

\* C23: every entry a batch driver appends to the log, for a successful and for a
\* failed attempt alike, is flushed to the file before the driver starts processing
\* the next (model, image) pair: between two pairs the file object holds no text.
C23_FlushedBeforeNextPair ==
    phase = "run" => pending = <<>>

\* what run_classification_batch does: it flushes after every write
C23_ClassificationFlushes ==
    (phase = "run" /\ driver = "classification") => pending = <<>>

\* C24: in a batch run, each attempted (model, image) pair results in exactly one
\* tagged entry appended to the log, whether the attempt succeeded or failed.
C24_OneEntryPerAttempt ==
    phase \in {"run", "finished", "scanned", "aborted"} => attempted = appended

-----------------------------------------------------------------------------
(* The key of the aggregate (specification Spec).                          *)

\* the (producer, subject_id) pair on the tag line of the n-th parsed block
TagKeyOf(n) == IndexKey(log[origin[n]])

\* C25: the aggregate is keyed by the (producer, subject_id) pair of each parsed
\* block's tag line: two parsed blocks whose tag lines differ in producer or in
\* subject are kept as two entries, whatever their payloads contain.
C25_KeyedByTagLine ==
    (phase = "done" /\ passes >= 1) =>
        \A n1, n2 \in 1..Len(results) :
            TagKeyOf(n1) # TagKeyOf(n2) =>
                IndexOfKey(unique_results, KeyOf(results[n1]))
                    # IndexOfKey(unique_results, KeyOf(results[n2]))

-----------------------------------------------------------------------------
(* The resume index against the scanner's output (specification Spec).     *)

\* the (producer, subject_id) keys of the entries the scanner emitted: the key on the
\* tag line each emitted block began at
EmittedKeys == { IndexKey(log[origin[n]]) : n \in 1..Len(origin) }

\* C17: the resume index built from a log contains a (producer, subject_id) key if
\* and only if the scanner emits a successfully parsed entry with that key from the
\* same log.
C17_IndexIsEmittedKeys ==
    (phase = "done" /\ idx_passes >= 1) => processed_keys = EmittedKeys

\* the half of C17 that the code keeps: every emitted entry's key is in the index
C17_EmittedAreIndexed ==
    (phase = "done" /\ idx_passes >= 1) => EmittedKeys \subseteq processed_keys

-----------------------------------------------------------------------------
(* Properties of the batch drivers (specification SpecBatch).              *)

\* the pairs the loop of the current run has gone past
PairsPassed == { Pairs(driver)[i] : i \in 1..(idx - 1) }

\* C6: in a resumed batch run, for every (model, filename) pair of the resume index
\* built from the prior log, no extraction is invoked and no entry is appended to the
\* log for that pair during the run.
C6_ResumeSkipsIndexed ==
    run_no >= 2 =>
        \A k \in processed_keys : k \notin attempted /\ k \notin appended

\* a resumed run whose loop has gone past a pair of its resume index, and has
\* processed another pair
C6_Witness ==
    /\ run_no >= 2
    /\ phase = "run"
    /\ PairsPassed \cap processed_keys # {}
    /\ attempted # {}

\* the pairs named by the tag lines of the entries the scanner emits from the log
RecoveredPairs ==
    LET st == parse_log(log)
    IN  { IndexKey(log[st.origin[n]]) : n \in 1..Len(st.origin) }

\* C27: after a batch run is interrupted at any point and resumed on the same log
\* until the resumed run completes, the scanner recovers at least one parsed entry
\* for every (model, image) pair of the batch: no pair is both skipped by the resume
\* index and absent from the parsed results.
C27_EveryPairRecovered ==
    (phase = "scanned" /\ run_no >= 2 /\ driver \in {"classification", "combined"}) =>
        \A i \in 1..Len(Pairs(driver)) : Pairs(driver)[i] \in RecoveredPairs

\* C7: when a run is cancelled or crashes at any point, the middle of writing a block
\* included, and is resumed on the same log until it completes, every block that was
\* written in full, before or after the interruption, is emitted by the scanner.
C7_FullBlocksSurviveResume ==
    (phase = "scanned" /\ run_no >= 2) =>
        \A w \in written : \E n \in 1..Len(results) : results[n] = w

\* C8: in every batch driver a failure of the extraction of one pair, whatever its
\* kind, does not stop the run: every remaining pair of the batch is still attempted.
C8_FailureDoesNotStopRun ==
    (failed # {} /\ phase \in {"aborted", "finished", "scanned"}) =>
        \A i \in 1..Len(Pairs(driver)) :
            Pairs(driver)[i] \in processed_keys \cup attempted

-----------------------------------------------------------------------------
(* Properties of the extraction entry points (specification SpecExtract).  *)

\* the result record carries an error
CarriesError(r) == IsDict(r) /\ "error" \in DOMAIN r.o

\* C5: every result record an extraction entry point produces (extract_numbers,
\* process_single_image, a batch driver's error record) that carries an error has
\* street_number, street_name and unit_number null and confidence equal to 0.0.
C5_ErrorRecordShape ==
    (ecall.entry # "none" /\ CarriesError(ecall.ret)) =>
        /\ \A k \in AddressKeys : Get(ecall.ret, k) = None
        /\ Get(ecall.ret, "confidence") = NumV("0.0")

\* C10: extract_numbers returns a result record for every input and propagates no
\* exception: a failure of the back-end call, of normalization or of classification
\* gives a record with error set.
C10_ExtractNeverRaises ==
    ecall.entry = "extract_numbers" =>
        /\ ~ecall.raised
        /\ IsDict(ecall.ret)
        /\ (ecall.arg.fail # "none" \/ ecall.arg.timeout) => CarriesError(ecall.ret)

\* extract_numbers was called and its back-end call failed
C10_Witness ==
    /\ ecall.entry = "extract_numbers"
    /\ ecall.arg.fail = "backend"
    /\ ~ecall.arg.timeout
    /\ CarriesError(ecall.ret)
    /\ Get(ecall.ret, "error") = StrV(ecall.arg.msg)

-----------------------------------------------------------------------------
(* Properties of the field parsers (specification SpecParse).              *)

\* t is s without its leading and trailing whitespace
IsTrimOf(t, s) ==
    \E i \in 1..(Len(s) + 1) : \E j \in (i - 1)..Len(s) :
        /\ t = SubSeq(s, i, j)
        /\ \A k \in 1..(i - 1) : IsSpace(s[k])
        /\ \A k \in (j + 1)..Len(s) : IsSpace(s[k])
        /\ (i <= j => ~IsSpace(s[i]) /\ ~IsSpace(s[j]))
        /\ (i > j => i = Len(s) + 1)

\* 1 to 5 digits, then at most one letter of either case
IsStreetNumberShape(t) ==
    \E d \in 1..5 :
        /\ Len(t) \in {d, d + 1}
        /\ \A k \in 1..d : IsDigit(t[k])
        /\ (Len(t) = d + 1 => IsLetter(t[d + 1]))

\* C12: parse_street_number returns the text without its surrounding whitespace
\* exactly when that trimmed text is 1 to 5 digits with at most one letter after them,
\* and null for every other text.
C12_StreetNumberShape ==
    ecall.entry = "parse_street_number" =>
        \A t \in { SubSeq(ecall.arg, i, j) :
                     i \in 1..(Len(ecall.arg) + 1), j \in 0..Len(ecall.arg) } :
            IsTrimOf(t, ecall.arg) =>
                IF IsStreetNumberShape(t) THEN ecall.ret = StrV(t) ELSE ecall.ret = None

\* a number with a letter, read from a text with whitespace around it
C12_Witness ==
    /\ ecall.entry = "parse_street_number"
    /\ ecall.arg = <<" ", "1", "1", "a", " ">>
    /\ ecall.ret = StrV(<<"1", "1", "a">>)

\* s[i..j] is a designator in any letter case, whitespace or none, one or more
\* digits, and at most one letter
IsUnitSpan(s, i, j) ==
    \E k \in 1..Len(Designators) :
        /\ WordAt(s, i, Designators[k])
        /\ \E b \in (i + Len(Designators[k]))..j :
              /\ \A x \in (i + Len(Designators[k]))..(b - 1) : IsSpace(s[x])
              /\ IsDigit(s[b])
              /\ \E c \in b..j :
                    /\ \A x \in b..c : IsDigit(s[x])
                    /\ (j = c \/ (j = c + 1 /\ IsLetter(s[j])))

UnitSpans(s) ==
    { ij \in { i \in 1..Len(s) : \E k \in 1..Len(Designators) : WordAt(s, i, Designators[k]) }
             \X (1..Len(s)) : IsUnitSpan(s, ij[1], ij[2]) }

\* C13: parse_unit_number returns the leftmost span of the text made of a designator,
\* optional whitespace, digits and at most one letter (the longest one that starts
\* there), wherever in the text it is, and null exactly when the text has no such span.
C13_UnitSpanFound ==
    ecall.entry = "parse_unit_number" =>
        LET spans == UnitSpans(ecall.arg)
        IN  IF spans = {} THEN ecall.ret = None
            ELSE \E ij \in spans :
                    /\ ecall.ret = StrV(SubSeq(ecall.arg, ij[1], ij[2]))
                    /\ \A xy \in spans :
                          ij[1] <= xy[1] /\ (xy[1] = ij[1] => xy[2] <= ij[2])

\* a unit number found inside a longer text
C13_Witness ==
    /\ ecall.entry = "parse_unit_number"
    /\ ecall.arg = <<"x", " ", "A", "p", "t", " ", "5">>
    /\ ecall.ret = StrV(<<"A", "p", "t", " ", "5">>)

-----------------------------------------------------------------------------
(* Properties of normalization and classification (specification           *)
(* SpecClassify).                                                          *)

\* the token is, once its punctuation is stripped, alphabetic and upper-case
IsCapsToken(t) == isupper(strip_punct(t)) /\ isalpha(strip_punct(t))

\* the positions of the original output where a candidate begins: every token that
\* is not all-caps, and the first token of every run of all-caps tokens
CandidateStarts(ts) ==
    { i \in 1..Len(ts) : ~IsCapsToken(ts[i]) \/ i = 1 \/ ~IsCapsToken(ts[i - 1]) }

\* the last position of the candidate that begins at i
CandidateEnd(ts, i) ==
    IF ~IsCapsToken(ts[i]) THEN i
    ELSE CHOOSE j \in i..Len(ts) :
            /\ \A x \in i..j : IsCapsToken(ts[x])
            /\ (j = Len(ts) \/ ~IsCapsToken(ts[j + 1]))

\* the candidates of the original output: one per start, in order, the stripped
\* tokens of the run joined by single spaces
MergedRuns(ts) ==
    [ k \in 1..Cardinality(CandidateStarts(ts)) |->
        LET i == CHOOSE x \in CandidateStarts(ts) :
                    Cardinality({ y \in CandidateStarts(ts) : y <= x }) = k
        IN  join([ x \in 1..(CandidateEnd(ts, i) - i + 1) |-> strip_punct(ts[i + x - 1]) ],
                 <<" ">>) ]

RECURSIVE FromRuns(_, _, _, _)
\* the candidates from the k-th on are, in order, single tokens or runs of consecutive
\* all-caps tokens of the original output ts taken from position `from` on; tokens
\* may be left out between two candidates, never inside one
FromRuns(cands, k, ts, from) ==
    IF k > Len(cands) THEN TRUE
    ELSE \E a \in from..Len(ts) : \E b \in a..Len(ts) :
            /\ b > a => \A x \in a..b : IsCapsToken(ts[x])
            /\ cands[k] = join([ x \in 1..(b - a + 1) |-> strip_punct(ts[a + x - 1]) ],
                               <<" ">>)
            /\ FromRuns(cands, k + 1, ts, b + 1)

\* no token of the call is filtered by the threshold (the generative wrapper has no
\* confidences and filters nothing)
NothingFiltered ==
    \/ ecall.wrapper = "got-ocr"
    \/ \A i \in 1..Len(ecall.arg) : ecall.arg[i].score >= ConfidenceThreshold

\* C14: normalization replaces every maximal run of consecutive all-caps alphabetic
\* tokens of the original recognition output by the run joined with single spaces,
\* passes every other token through in place, and keeps the original order: every
\* candidate is a token or a run of consecutive tokens of the original output, and
\* when nothing is filtered the candidates are exactly the merged runs.
C14_RunsMerged ==
    (ecall.entry = "classify" /\ ecall.wrapper \in {"paddleocr", "got-ocr"}) =>
        /\ FromRuns(ecall.ret.candidates, 1, Texts(ecall.arg), 1)
        /\ NothingFiltered => ecall.ret.candidates = MergedRuns(Texts(ecall.arg))

\* the same statement for the calls in which nothing is filtered
C14_Unfiltered ==
    (ecall.entry = "classify" /\ ecall.wrapper \in {"paddleocr", "got-ocr"}
        /\ NothingFiltered) =>
        ecall.ret.candidates = MergedRuns(Texts(ecall.arg))

\* the positions of the original output whose token is eligible and is a street number
NumberPositions(tokens) ==
    { i \in 1..Len(tokens) :
        /\ tokens[i].score >= ConfidenceThreshold
        /\ IsStreetNumberShape(strip(strip_punct(tokens[i].text))) }

\* C15: once the street number is found, when the token that follows it in the full
\* token sequence (before threshold filtering) is exactly one alphabetic character,
\* that character is appended to the street number.
C15_SuffixAttached ==
    (/\ ecall.entry = "classify"
     /\ ecall.wrapper \in {"paddleocr", "got-ocr"}
     /\ NumberPositions(ecall.arg) # {}) =>
        LET i == CHOOSE x \in NumberPositions(ecall.arg) :
                    \A y \in NumberPositions(ecall.arg) : x <= y
            next == IF i < Len(ecall.arg) THEN ecall.arg[i + 1].text ELSE <<>>
        IN  (Len(next) = 1 /\ IsLetter(next[1])) =>
                ecall.ret.street_number
                    = StrV(strip(strip_punct(ecall.arg[i].text)) \o next)

\* C16: the unit number is the one found in the full text of all recognized tokens
\* joined by single spaces, whatever their confidence, in every wrapper.
C16_UnitFromFullText ==
    ecall.entry = "classify" =>
        ecall.ret.unit_number = parse_unit_number(FullText(ecall.arg))

\* the three address fields of a result
AddressFields(r) == <<r.street_number, r.street_name, r.unit_number>>

\* C20: given the same token stream, every wrapper gives the same street number,
\* street name and unit number.
C20_WrappersAgree ==
    ecall.entry = "classify" =>
        \A w \in Wrappers :
            AddressFields(Classify(w, ecall.arg)) = AddressFields(ecall.ret)

\* C30: every non-null street number of a result is 1 to 5 digits followed by at
\* most one letter, for every token sequence, including a matched token that
\* already ends in a letter and is followed by a single-letter token.
C30_NumberShapeKept ==
    (ecall.entry = "classify" /\ ecall.ret.street_number # None) =>
        IsStreetNumberShape(ecall.ret.street_number.a)

\* the same statement for the wrappers that attach no suffix
C30_PlainWrappersKeepShape ==
    (ecall.entry = "classify" /\ ecall.wrapper \in {"easyocr", "trocr"}
        /\ ecall.ret.street_number # None) =>
        IsStreetNumberShape(ecall.ret.street_number.a)

-----------------------------------------------------------------------------
(* Which token gives the street number (specification SpecNumbers).        *)

\* the tokens of SpecNumbers: street numbers above and below the threshold, one
\* that ends in a letter, one with punctuation, a letter, and other words
NumberVocabulary ==
    { Scored(<<"1", "7">>, 990), Scored(<<"4", "2">>, 500), Scored(<<"5", "B">>, 990),
      Scored(<<"6", "8", ".">>, 990), Scored(<<"a">>, 990), Scored(<<"S">>, 990),
      Scored(<<"M", "a", "i", "n">>, 990) }

RECURSIVE NumberStreams(_)
\* the sequences of at most n of these tokens
NumberStreams(n) ==
    IF n = 0 THEN {<<>>}
    ELSE LET shorter == NumberStreams(n - 1)
         IN  shorter \cup { <<t>> \o s : t \in NumberVocabulary, s \in shorter }

NumbersInit ==
    /\ ecall \in { Recognized(tokens) : tokens \in NumberStreams(MaxTokens) }
    /\ ExtraIdle
    /\ BatchIdle
    /\ log = <<>>
    /\ results = <<>>
    /\ raised = FALSE
    /\ phase = "classify"
    /\ processed_keys = {}
    /\ pos = 1
    /\ current_block = <<>>
    /\ brace_count = 0
    /\ in_block = FALSE
    /\ unique_results = <<>>
    /\ passes = 0
    /\ agg1 = <<>>
    /\ origin = <<>>
    /\ block_start = 0
    /\ attempts = <<>>
    /\ idx_passes = 0
    /\ keys1 = {}

SpecNumbers == NumbersInit /\ [][ClassifyNext]_vars

\* the wrappers that drop the tokens scored below the threshold
Thresholded == {"paddleocr", "easyocr"}

\* the token's text as the wrapper hands it to parse_street_number
Presented(w, text) == IF w = "easyocr" THEN text ELSE strip_punct(text)

\* the positions of the tokens that are eligible for the wrapper and match the
\* street-number pattern
MatchingPositions(w, tokens) ==
    { i \in 1..Len(tokens) :
        /\ (w \in Thresholded => tokens[i].score >= ConfidenceThreshold)
        /\ IsStreetNumberShape(strip(Presented(w, tokens[i].text))) }

\* the first of a non-empty set of positions
FirstOf(S) == CHOOSE x \in S : \A y \in S : x <= y

\* number is the matched text, alone or with one suffix letter after it
FromMatch(number, matched) ==
    \/ number = StrV(matched)
    \/ /\ number.t = "str"
       /\ Len(number.a) = Len(matched) + 1
       /\ SubSeq(number.a, 1, Len(matched)) = matched
       /\ IsLetter(number.a[Len(number.a)])

\* C26: the street number is determined by the first eligible token, in sequence
\* order, that matches the street-number pattern: no later token changes it, and it
\* is null exactly when no eligible token matches.
C26_FirstMatchWins ==
    ecall.entry = "classify" =>
        LET found == MatchingPositions(ecall.wrapper, ecall.arg)
        IN  IF found = {} THEN ecall.ret.street_number = None
            ELSE FromMatch(ecall.ret.street_number,
                           strip(Presented(ecall.wrapper,
                                           ecall.arg[FirstOf(found)].text)))

\* a call in which a number below the threshold comes first and two eligible
\* tokens with different numbers follow it
C26_Witness ==
    /\ ecall.entry = "classify"
    /\ ecall.wrapper = "paddleocr"
    /\ Len(ecall.arg) >= 3
    /\ ecall.arg[1].score < ConfidenceThreshold
    /\ IsStreetNumberShape(ecall.arg[1].text)
    /\ Cardinality(MatchingPositions("paddleocr", ecall.arg)) >= 2
    /\ ecall.ret.street_number = StrV(ecall.arg[2].text)
    /\ ecall.arg[3].text # ecall.arg[2].text

-----------------------------------------------------------------------------
(* The lazily made GOT-OCR model (specification SpecLazy): the worker      *)
(* threads of extract_numbers inside get_ocr.                              *)

\* the thread of a call, about to enter get_ocr from _extract_numbers_impl
LazyThread(path) ==
    [ path |-> path, state |-> "get_ocr", abandoned |-> FALSE, model |-> <<>> ]

\* process_batch calls extract_numbers for the next image: the thread is started
LazyStart ==
    /\ phase = "batch"
    /\ ~Joining
    /\ Len(threads) < MaxCalls
    /\ threads' = Append(threads, LazyThread(ImageNames[Len(threads) + 1]))
    /\ UNCHANGED <<returns, output, writers, read_error, lazyVars>>
    /\ UNCHANGED <<scanVars, batchOnly, ecall>>

\* get_ocr: "if _model is None:"; otherwise "return _model, _tokenizer"
TestModel ==
    /\ \E i \in 1..Len(threads) :
          /\ threads[i].state = "get_ocr"
          /\ threads' = [threads EXCEPT
                           ![i].state = IF _model = <<>> THEN "loading" ELSE "chat",
                           ![i].model = _model]
    /\ UNCHANGED <<returns, output, writers, read_error, lazyVars>>
    /\ UNCHANGED <<scanVars, batchOnly, ecall>>

\* get_ocr: "_model = AutoModel.from_pretrained(...)" comes back and is assigned
LoadModel ==
    /\ \E i \in 1..Len(threads) :
          /\ threads[i].state = "loading"
          /\ threads' = [threads EXCEPT ![i].state = "chat", ![i].model = <<loads + 1>>]
    /\ loads' = loads + 1
    /\ _model' = <<loads + 1>>
    /\ UNCHANGED <<returns, output, writers, read_error>>
    /\ UNCHANGED <<scanVars, batchOnly, ecall>>

\* model.chat(...) and the rest of _extract_numbers_impl: run_ocr ends
Chat ==
    /\ \E i \in 1..Len(threads) :
          /\ threads[i].state = "chat"
          /\ threads' = [threads EXCEPT ![i].state = "done"]
    /\ UNCHANGED <<returns, output, writers, read_error, lazyVars>>
    /\ UNCHANGED <<scanVars, batchOnly, ecall>>

\* the join ends because the thread has
LazyJoinReturns ==
    /\ Joining
    /\ threads[Len(threads)].state = "done"
    /\ returns' = Append(returns, ReturnOf(StrV(<<threads[Len(threads)].path>>), Len(threads)))
    /\ UNCHANGED <<threads, output, writers, read_error, lazyVars>>
    /\ UNCHANGED <<scanVars, batchOnly, ecall>>

\* the join ends after 30 seconds with the thread alive: the call returns the
\* timeout record and leaves the thread running
LazyJoinTimeout ==
    /\ Joining
    /\ threads[Len(threads)].state # "done"
    /\ returns' = Append(returns,
                         ReturnOf(ErrorRecord(threads[Len(threads)].path, TimeoutMessage), 0))
    /\ threads' = [threads EXCEPT ![Len(threads)].abandoned = TRUE]
    /\ UNCHANGED <<output, writers, read_error, lazyVars>>
    /\ UNCHANGED <<scanVars, batchOnly, ecall>>

\* main's "finally: cleanup_ocr()": _model = None, with the threads that were left
\* running still there
Cleanup ==
    /\ phase = "batch"
    /\ ~Joining
    /\ Len(returns) = MaxCalls
    /\ _model' = <<>>
    /\ phase' = "cleaned"
    /\ UNCHANGED <<threads, returns, output, writers, read_error, loads>>
    /\ UNCHANGED <<log, pos, current_block, brace_count, in_block, results, raised,
                   unique_results, passes, agg1, origin, block_start, attempts,
                   processed_keys, idx_passes, keys1>>
    /\ UNCHANGED <<batchOnly, ecall>>

LazyNext ==
    \/ LazyStart
    \/ TestModel
    \/ LoadModel
    \/ Chat
    \/ LazyJoinReturns
    \/ LazyJoinTimeout
    \/ Cleanup

SpecLazy == TimeoutInit /\ [][LazyNext]_vars

\* C29: the lazily made GOT-OCR model is initialised at most once per process, for
\* every interleaving of extraction calls, including a call that starts while the
\* worker thread of an earlier timed-out call is still running inside get_ocr.
C29_InitialisedOnce == loads <= 1

\* the same statement while no call has timed out and cleanup_ocr has not run
C29_OnceWithoutTimeout ==
    (phase = "batch" /\ \A i \in 1..Len(threads) : ~threads[i].abandoned) => loads <= 1

-----------------------------------------------------------------------------
=============================================================================
